---- MODULE Spec2Model ----
(***************************************************************************)
(* The mfa-auth extension: AuthManager (sessions, the two grant caches,   *)
(* pending executions, the persisted first-message record), the verify    *)
(* endpoint of the HTTP server, the QR-code provider and the plugin       *)
(* hooks, and DabbyClient (the access-token cache and its retry loop, the  *)
(* QR-code request and the poll of the authentication result).             *)
(*                                                                         *)
(* Time is Date.now() counted in units of 300 000 ms, so that the         *)
(* hard-coded 5 minute session timeout is 1 unit and the hard-coded 10    *)
(* minute pending-execution timeout is 2 units.  Date.now() is never 0.   *)
(***************************************************************************)
EXTENDS Integers, Sequences, FiniteSets, TLC

\* ---------------------------------------------------------------- bounds
MaxTime == 4
\* session ids handed out in a run: one, and two under the specifications
\* whose claims are about a second session
MaxSessions == 1
MaxSessionsTwo == 2

\* ------------------------------------------------------------- constants
\* config.timeout = 5 * 60 * 1000 ms
Timeout == 1
\* config.verificationDuration (MFA_VERIFICATION_DURATION), here set to 5 minutes
VerificationDuration == 1
\* config.firstMessageAuthDuration (MFA_FIRST_MESSAGE_AUTH_DURATION), here set to 10 minutes
FirstMessageAuthDuration == 2
\* 10 * 60 * 1000 ms, literal in cleanup and hasPendingExecution
PendingTimeout == 2

Users == {"u1", "u2"}
SessionIds == 1..MaxSessionsTwo
\* the browser requests under way: one at a time, and two at once under the
\* specification whose claims are about requests that overlap
OneReq == {"r1"}
Reqs == {"r1", "r2"}
Times == 1..MaxTime

FirstMessage == "first_message"
SensitiveOperation == "sensitive_operation"
TriggerTypes == {FirstMessage, SensitiveOperation}

\* AuthMethodType; only the QR-code provider is ever registered (index.ts:18)
QrCode == "qr-code"
AuthMethodTypes == {"qr-code", "sms"}

\* ------------------------------------------------ Map<string, number>
\* A JavaScript Map is modelled as a set of <<key, value>> entries.
MapHas(m, k) == \E e \in m : e[1] = k

MapGet(m, k) == (CHOOSE e \in m : e[1] = k)[2]

MapDelete(m, k) == {e \in m : e[1] # k}

MapSetKeepOld(m, k, v) == m \cup {<<k, v>>}

MapSet(m, k, v) == {e \in m : e[1] # k} \cup {<<k, v>>}

MapKeys(m) == {e[1] : e \in m}


\* ------------------------------------------------------------ variables
VARIABLES
    users,                    \* the chat users taking part
    now,                      \* Date.now()
    defaultAuthMethod,        \* config.defaultAuthMethod
    sessions,                 \* AuthManager.sessions: sessionId -> AuthSession
    nextId,                   \* number of session ids handed out so far
    verifiedForSensitiveOps,  \* AuthManager.verifiedForSensitiveOps
    verifiedForFirstMessage,  \* AuthManager.verifiedForFirstMessage
    persisted,                \* records of first-message-auth.json
    pendingExecutions,        \* AuthManager.pendingExecutions: userId -> entry
    reqs,                     \* POST /mfa-auth/verify requests and their position
    grantWrites,              \* per session id: grants written by verifySession
    notifyCount,              \* per session id: calls of notifyCallback
    watch,                    \* the operations whose outcome is recorded in last
    last,                     \* the watched operation just completed, and its outcome
    clientConfigured,         \* DabbyClient: config.clientId && config.clientSecret
    cachedAccessToken,        \* DabbyClient.cachedAccessToken
    tokenExpiryTime,          \* DabbyClient.tokenExpiryTime
    calls,                    \* DabbyClient: the calls under way and their position
    reply,                    \* DabbyClient: the call just settled, and how
    envKeywords,              \* process.env.MFA_SENSITIVE_KEYWORDS
    configKeywords,           \* config.sensitiveKeywords
    classified,               \* the checkSensitiveOperation call just made, and its answer
    sessionLimit              \* the number of session ids the run can hand out

configVars == <<envKeywords, configKeywords, classified>>

clientVars == <<clientConfigured, cachedAccessToken, tokenExpiryTime, calls, reply>>

vars == <<users, now, defaultAuthMethod, sessions, nextId, verifiedForSensitiveOps,
          verifiedForFirstMessage, persisted, pendingExecutions, reqs,
          grantWrites, notifyCount, watch, last, clientVars, configVars,
          sessionLimit>>

\* AuthManager.providers after register(api): registerProvider(qrCodeAuthProvider)
providers == {QrCode}

getProvider(methodType) == methodType \in providers

NoResult == [op |-> "-", user |-> "-", sid |-> 0, out |-> "-", prev |-> 0,
             status |-> "-", http |-> 0, success |-> FALSE,
             purpose |-> "-", notified |-> FALSE, trusted |-> FALSE]

\* status, success: those fields of the AuthResult sent back ("-" when it has
\* no status); http: the status code of the response, 0 when none is sent;
\* purpose: the session's triggerType; notified: notifyCallback was invoked;
\* trusted: the user held a sensitive-operation grant when it was invoked
ResultNotify(op, user, sid, out, prev, status, http, success, purpose, notified, trusted) ==
    IF op \in watch
    THEN [op |-> op, user |-> user, sid |-> sid, out |-> out, prev |-> prev,
          status |-> status, http |-> http, success |-> success,
          purpose |-> purpose, notified |-> notified, trusted |-> trusted]
    ELSE NoResult

ResultHttp(op, user, sid, out, prev, status, http, success) ==
    ResultNotify(op, user, sid, out, prev, status, http, success, "-", FALSE, FALSE)

ResultStatus(op, user, sid, out, prev, status) ==
    ResultHttp(op, user, sid, out, prev, status, 0, FALSE)

Result(op, user, sid, out, prev) == ResultStatus(op, user, sid, out, prev, "-")

IdleReq == [pc |-> "idle", sid |-> 0, userId |-> "-", triggerType |-> "-", timestamp |-> 0]

\* ---------------------------------------------------- DabbyClient data
\* for (let i = 0; i < 3; i++)
MaxAttempts == 3

\* getAccessToken, getQrCode and getAuthResult can be under way side by side
Callers == {"a", "b"}

ClientOps == {"getAccessToken", "getQrCode", "getAuthResult"}

\* cachedAccessToken: string | null = null
NoToken == "null"

\* data.accessToken of a successful token response
Tokens == {"t1", "t2"}

\* data.expireSeconds * 1000 of a successful token response, in time units
ExpireSeconds == {1, 2}

\* data.retMessage of a refused request
RetMessages == {"m1", "m2"}

\* What fetch(`${apiBaseUrl}/accesstoken`) can bring: a rejected fetch, a
\* response that is not ok, a body with retCode !== 0, a body with a token.
TokenResponses ==
    {[transport |-> "reject", retCode |-> 0, retMessage |-> "-",
      accessToken |-> NoToken, expireSeconds |-> 0],
     [transport |-> "http", retCode |-> 0, retMessage |-> "-",
      accessToken |-> NoToken, expireSeconds |-> 0]}
    \cup {[transport |-> "ok", retCode |-> 1001, retMessage |-> m,
            accessToken |-> NoToken, expireSeconds |-> 0] : m \in RetMessages}
    \cup {[transport |-> "ok", retCode |-> 0, retMessage |-> "-",
            accessToken |-> tok, expireSeconds |-> e] :
                tok \in Tokens, e \in ExpireSeconds}

\* What fetch(`${apiBaseUrl}/authhist`) can bring, and "token": the
\* getAccessToken() before it rejected.
PollResponses ==
    {[transport |-> "token", retCode |-> 0, retMessage |-> "-", resCode |-> 0],
     [transport |-> "reject", retCode |-> 0, retMessage |-> "-", resCode |-> 0],
     [transport |-> "http", retCode |-> 0, retMessage |-> "-", resCode |-> 0],
     [transport |-> "ok", retCode |-> 4401, retMessage |-> "m1", resCode |-> 0],
     [transport |-> "ok", retCode |-> 5000, retMessage |-> "m1", resCode |-> 0],
     [transport |-> "ok", retCode |-> 0, retMessage |-> "-", resCode |-> 0],
     [transport |-> "ok", retCode |-> 0, retMessage |-> "-", resCode |-> 1002]}

\* What fetch(`${apiBaseUrl}/authreq`) can bring
QrResponses ==
    {[transport |-> "reject", retCode |-> 0, retMessage |-> "-"],
     [transport |-> "http", retCode |-> 0, retMessage |-> "-"],
     [transport |-> "ok", retCode |-> 1001, retMessage |-> "m1"],
     [transport |-> "ok", retCode |-> 0, retMessage |-> "-"]}

ConfigError == "Dabby clientId and clientSecret are not configured"

\* The error a failed request throws
RequestError(resp) ==
    IF resp.transport = "reject" THEN "fetch failed"
    ELSE IF resp.transport = "http" THEN "HTTP error"
    ELSE "Dabby API error: " \o resp.retMessage

RequestFailed(resp) == resp.transport # "ok" \/ resp.retCode # 0

\* !this.config.clientId || !this.config.clientSecret
CredentialsMissingNever(configured) == FALSE

CredentialsMissing(configured) == ~configured

\* !forceRefresh && this.cachedAccessToken && Date.now() < this.tokenExpiryTime
CacheValidForced(token, expiry, forceRefresh, t) == token # NoToken /\ t < expiry

CacheValid(token, expiry, forceRefresh, t) ==
    ~forceRefresh /\ token # NoToken /\ t < expiry

\* getAuthResult: the AuthResult it resolves with; "error" when it throws
getAuthResultNoPending(resp) ==
    IF resp.transport # "ok" \/ resp.retCode # 0
    THEN [status |-> "error", authObject |-> FALSE, error |-> "-"]
    ELSE IF resp.resCode = 0
    THEN [status |-> "verified", authObject |-> TRUE, error |-> "-"]
    ELSE [status |-> "failed", authObject |-> FALSE, error |-> "resCode"]

getAuthResult(resp) ==
    IF resp.transport # "ok"
    THEN [status |-> "error", authObject |-> FALSE,
          error |-> IF resp.transport = "token" THEN "token" ELSE RequestError(resp)]
    ELSE IF resp.retCode # 0
    THEN IF resp.retCode = 4401
         THEN [status |-> "pending", authObject |-> FALSE, error |-> "-"]
         ELSE [status |-> "error", authObject |-> FALSE, error |-> RequestError(resp)]
    ELSE IF resp.resCode = 0
    THEN [status |-> "verified", authObject |-> TRUE, error |-> "-"]
    ELSE [status |-> "failed", authObject |-> FALSE, error |-> "resCode"]

\* the loop test i < 3, asked after attempt i has failed and i++ is due
MoreAttemptsLate(i) == i < MaxAttempts

MoreAttempts(i) == i + 1 < MaxAttempts

IdleCall == [pc |-> "idle", op |-> "-", i |-> 0, lastError |-> "-", requests |-> 0]

NoReply == [caller |-> "-", op |-> "-", result |-> "-", value |-> "-", requests |-> 0]

Resolved(c, op, value, requests) ==
    [caller |-> c, op |-> op, result |-> "resolved", value |-> value,
     requests |-> requests]

Rejected(c, op, error, requests) ==
    [caller |-> c, op |-> op, result |-> "rejected", value |-> error,
     requests |-> requests]

\* -------------------------------------------------- time comparisons
\* Date.now() - session.timestamp > this.config.timeout
SessionTimedOutLate(timestamp, t) == t - timestamp > Timeout + 1

SessionTimedOut(timestamp, t) == t - timestamp > Timeout

\* Date.now() - verifiedTime > this.config.verificationDuration
SensitiveStaleLate(verifiedTime, t) == t - verifiedTime > VerificationDuration + 1

SensitiveStale(verifiedTime, t) == t - verifiedTime > VerificationDuration

\* Date.now() - verifiedTime > duration  (firstMessageAuthDuration)
FirstMessageStaleLate(verifiedTime, t) == t - verifiedTime > FirstMessageAuthDuration + 1

FirstMessageStale(verifiedTime, t) == t - verifiedTime > FirstMessageAuthDuration

\* now - record.verifiedAt < duration  (startup load)
LoadKeepsAtBoundary(verifiedAt, t) == t - verifiedAt <= FirstMessageAuthDuration

LoadKeeps(verifiedAt, t) == t - verifiedAt < FirstMessageAuthDuration

\* now - pending.timestamp > 10 * 60 * 1000
PendingStale(timestamp, t) == t - timestamp > PendingTimeout

\* hasPendingExecution: now - pending.timestamp < 10 * 60 * 1000
PendingValid(timestamp, t) == t - timestamp < PendingTimeout

\* hasPendingExecution(userId): the value returned; it changes nothing
hasPendingExecution(m, userId, t) ==
    MapHas(m, userId) /\ PendingValid(MapGet(m, userId)[2], t)

\* registerPendingExecution: this.pendingExecutions.set(userId, {sessionId, timestamp})
registerPendingExecutionKeep(m, userId, sid, t) == m \cup {<<userId, <<sid, t>> >>}

registerPendingExecution(m, userId, sid, t) == MapSet(m, userId, <<sid, t>>)

\* ------------------------------------------------------- persistence
\* persistFirstMessageAuth: rewrites the file with every entry of the
\* in-memory map; a failing write is caught and leaves the file as it was.
\* The in-memory map once persistFirstMessageAuth has returned: the map was
\* changed before the call, and the catch of a failing write only logs
MemoryAfterWriteRollsBack(before, after, ok) == IF ok THEN after ELSE before

MemoryAfterWrite(before, after, ok) == after

persistFirstMessageAuthMerges(memory, file, ok) == IF ok THEN memory \cup file ELSE file

persistFirstMessageAuth(memory, file, ok) == IF ok THEN memory ELSE file

\* loadPersistedFirstMessageAuth on a fresh AuthManager
loadPersistedFirstMessageAuth(file, t) == {e \in file : LoadKeeps(e[2], t)}

\* ------------------------------------------------- grace-period checks
\* isUserVerifiedForSensitiveOps: the value returned
SensitiveVerified(m, userId, t) ==
    /\ MapHas(m, userId)
    /\ MapGet(m, userId) # 0
    /\ ~SensitiveStale(MapGet(m, userId), t)

\* isUserVerifiedForSensitiveOps: the map it leaves
SensitiveAfterCheck(m, userId, t) ==
    IF MapHas(m, userId) /\ MapGet(m, userId) # 0 /\ SensitiveStale(MapGet(m, userId), t)
    THEN MapDelete(m, userId)
    ELSE m

\* isUserVerifiedForFirstMessage: the value returned
FirstMessageVerified(m, userId, t) ==
    /\ MapHas(m, userId)
    /\ MapGet(m, userId) # 0
    /\ ~FirstMessageStale(MapGet(m, userId), t)

\* isUserVerifiedForFirstMessage: does it evict (and then rewrite the file)
FirstMessageEvicts(m, userId, t) ==
    MapHas(m, userId) /\ MapGet(m, userId) # 0 /\ FirstMessageStale(MapGet(m, userId), t)

\* isUserVerifiedForFirstMessage: the map it leaves
FirstMessageAfterCheck(m, userId, t) ==
    IF FirstMessageEvicts(m, userId, t) THEN MapDelete(m, userId) ELSE m

\* isUserVerifiedForFirstMessage: the file it leaves
FirstMessageFileAfterCheck(m, file, userId, t, ok) ==
    IF FirstMessageEvicts(m, userId, t)
    THEN persistFirstMessageAuth(MapDelete(m, userId), file, ok)
    ELSE file

\* ------------------------------------------------------------- sessions
\* crypto.randomUUID(): an id that was never handed out; n ids were so far
FreshIdReused(n) == IF n = 0 THEN 1 ELSE n

FreshId(n) == n + 1

NewSession(userId, authMethod, triggerType, t) ==
    [userId |-> userId, authMethod |-> authMethod, timestamp |-> t,
     triggerType |-> triggerType, certToken |-> FALSE, expireTimeMs |-> 0,
     authStatus |-> "none"]

SessionsDelete(ss, sid) == [i \in DOMAIN ss \ {sid} |-> ss[i]]

SessionsSet(ss, sid, session) ==
    [i \in DOMAIN ss \cup {sid} |-> IF i = sid THEN session ELSE ss[i]]

\* updateAuthStatus: a no-op for a session that is not in the store
updateAuthStatusOfAll(ss, sid, status) ==
    IF sid \in DOMAIN ss THEN [i \in DOMAIN ss |-> [ss[i] EXCEPT !.authStatus = status]]
    ELSE ss

updateAuthStatus(ss, sid, status) ==
    IF sid \in DOMAIN ss THEN [ss EXCEPT ![sid].authStatus = status] ELSE ss

\* generateSession: can it create a session (provider registered)
CanGenerate(authMethod) == getProvider(authMethod)

\* ------------------------------------------------ sensitive commands
\* Commands and keywords are sequences of characters.
ToLowerChar(c) == IF c = "R" THEN "r" ELSE IF c = "M" THEN "m" ELSE c

toLowerCase(text) == [i \in 1..Len(text) |-> ToLowerChar(text[i])]

\* String.prototype.includes
includes(text, part) ==
    \E i \in 1..(Len(text) - Len(part) + 1) :
        \A j \in 1..Len(part) : text[i + j - 1] = part[j]

\* config.sensitiveKeywords as configured through MFA_SENSITIVE_KEYWORDS
sensitiveKeywords == {<<"r", "m">>}

\* checkSensitiveOperation(text).isSensitive
checkSensitiveOperation(text) ==
    \E keyword \in sensitiveKeywords :
        includes(toLowerCase(text), toLowerCase(keyword))

sensitiveTools == {"bash", "exec", "runCommand", "command", "process"}

\* The tool calls tried: <<toolName, command>>
ToolCalls == {<<"read", <<"r", "m">> >>, <<"bash", << >> >>, <<"bash", <<"l", "s">> >>,
              <<"bash", <<"R", "m", " ", "x">> >>}

\* ---------------------------------------------------------------- time

\* ---------------------------------------- config.sensitiveKeywords
MaxEnvLen == 4

\* The characters of the values tried for MFA_SENSITIVE_KEYWORDS
EnvChars == {"r", "M", ",", " "}

EnvStrings == UNION {[1..n -> EnvChars] : n \in 0..MaxEnvLen}

\* process.env.MFA_SENSITIVE_KEYWORDS: undefined, or a string
EnvUnset == [set |-> FALSE, value |-> << >>]

EnvValues == {EnvUnset} \cup {[set |-> TRUE, value |-> v] : v \in EnvStrings}

\* String.prototype.split(",")
RECURSIVE split(_)
split(text) ==
    IF \A i \in 1..Len(text) : text[i] # ","
    THEN <<text>>
    ELSE LET i == CHOOSE k \in 1..Len(text) :
                      text[k] = "," /\ \A j \in 1..(k - 1) : text[j] # ","
         IN  <<SubSeq(text, 1, i - 1)>> \o split(SubSeq(text, i + 1, Len(text)))

\* String.prototype.trim
RECURSIVE trim(_)
trim(text) ==
    IF text # << >> /\ Head(text) = " " THEN trim(Tail(text))
    ELSE IF text # << >> /\ text[Len(text)] = " "
    THEN trim(SubSeq(text, 1, Len(text) - 1))
    ELSE text

\* filter(Boolean) on strings: the empty string is dropped
NonEmpty(text) == text # << >>

\* parseStringArray(envValue)
parseStringArray(envValue) ==
    IF ~envValue.set \/ envValue.value = << >>
    THEN << >>
    ELSE LET items == split(envValue.value)
         IN  SelectSeq([i \in 1..Len(items) |-> toLowerCase(trim(items[i]))], NonEmpty)

\* entries of the built-in list of config.ts
defaultKeywords == << <<"r", "m">>, <<"s", "u", "d", "o">> >>

\* The left operand of ||, an array, as a condition: every array is truthy
ArrayTruthy(array) == TRUE

\* parseStringArray(process.env.MFA_SENSITIVE_KEYWORDS) || [ ...the list ]
ConfigKeywords(envValue) ==
    IF ArrayTruthy(parseStringArray(envValue))
    THEN parseStringArray(envValue)
    ELSE defaultKeywords

\* checkSensitiveOperation(text).isSensitive under a keyword array
isSensitive(keywords, text) ==
    \E k \in 1..Len(keywords) :
        includes(toLowerCase(text), toLowerCase(keywords[k]))

\* The commands classified
Commands == {<<"r", "m">>, <<"R", "M", " ", "x">>, <<"a", "r", "M">>, <<"m", "r">>,
             <<"s", "u", "d", "o">>, <<"l", "s">>}

NoClassified == [done |-> FALSE, text |-> << >>, isSensitive |-> FALSE]

TypeOK ==
    /\ users \subseteq Users
    /\ now \in Times
    /\ defaultAuthMethod \in AuthMethodTypes
    /\ nextId \in 0..MaxSessionsTwo
    /\ DOMAIN sessions \subseteq SessionIds
    /\ verifiedForSensitiveOps \subseteq Users \X Times
    /\ verifiedForFirstMessage \subseteq Users \X Times
    /\ persisted \subseteq Users \X Times

Init ==
    /\ users = {"u1"}
    /\ now = 1
    /\ defaultAuthMethod \in AuthMethodTypes
    /\ sessions = << >>
    /\ nextId = 0
    /\ verifiedForSensitiveOps = {}
    /\ verifiedForFirstMessage = {}
    /\ persisted = {}
    /\ pendingExecutions = {}
    /\ reqs = [r \in OneReq |-> IdleReq]
    /\ grantWrites = [i \in SessionIds |-> 0]
    /\ notifyCount = [i \in SessionIds |-> 0]
    /\ watch = {}
    /\ last = NoResult
    /\ clientConfigured = TRUE
    /\ cachedAccessToken = NoToken
    /\ tokenExpiryTime = 0
    /\ calls = [c \in Callers |-> IdleCall]
    /\ reply = NoReply
    /\ envKeywords = [set |-> TRUE, value |-> <<"r", "m">>]
    /\ configKeywords = ConfigKeywords(envKeywords)
    /\ classified = NoClassified
    /\ sessionLimit = MaxSessions


Tick ==
    /\ now < MaxTime
    /\ now' = now + 1
    /\ last' = Result("tick", "-", 0, "-", 0)
    /\ UNCHANGED <<sessionLimit, configVars, clientVars, users, watch, defaultAuthMethod, sessions, nextId, verifiedForSensitiveOps,
                   verifiedForFirstMessage, persisted, pendingExecutions, reqs,
                   grantWrites, notifyCount>>

\* ----------------------------------------------- AuthManager queries
IsUserVerifiedForSensitiveOps(userId) ==
    /\ verifiedForSensitiveOps' = SensitiveAfterCheck(verifiedForSensitiveOps, userId, now)
    /\ last' = Result("isUserVerifiedForSensitiveOps", userId, 0,
                      IF SensitiveVerified(verifiedForSensitiveOps, userId, now)
                      THEN "true" ELSE "false",
                      IF MapHas(verifiedForSensitiveOps, userId)
                      THEN MapGet(verifiedForSensitiveOps, userId) ELSE 0)
    /\ UNCHANGED <<sessionLimit, configVars, clientVars, users, watch, now, defaultAuthMethod, sessions, nextId, verifiedForFirstMessage,
                   persisted, pendingExecutions, reqs, grantWrites, notifyCount>>

IsUserVerifiedForFirstMessage(userId, ok) ==
    /\ verifiedForFirstMessage' =
           MemoryAfterWrite(verifiedForFirstMessage,
                            FirstMessageAfterCheck(verifiedForFirstMessage, userId, now), ok)
    /\ persisted' = FirstMessageFileAfterCheck(verifiedForFirstMessage, persisted,
                                                userId, now, ok)
    /\ last' = Result("isUserVerifiedForFirstMessage", userId, 0,
                      IF FirstMessageVerified(verifiedForFirstMessage, userId, now)
                      THEN "true" ELSE "false",
                      IF MapHas(verifiedForFirstMessage, userId)
                      THEN MapGet(verifiedForFirstMessage, userId) ELSE 0)
    /\ UNCHANGED <<sessionLimit, configVars, clientVars, users, watch, now, defaultAuthMethod, sessions, nextId, verifiedForSensitiveOps,
                   pendingExecutions, reqs, grantWrites, notifyCount>>

\* ------------------------------------------------------- plugin hooks
\* api.on("before_tool_call")
BeforeToolCall(userId, toolName, command) ==
    LET sensitive == /\ toolName \in sensitiveTools
                     /\ command # << >>
                     /\ checkSensitiveOperation(command)
        verified == SensitiveVerified(verifiedForSensitiveOps, userId, now)
        created == sensitive /\ ~verified /\ CanGenerate(defaultAuthMethod)
        sid == FreshId(nextId)
    IN  /\ created => nextId < sessionLimit
        /\ verifiedForSensitiveOps' =
               IF sensitive
               THEN SensitiveAfterCheck(verifiedForSensitiveOps, userId, now)
               ELSE verifiedForSensitiveOps
        /\ sessions' =
               IF created
               THEN SessionsSet(sessions, sid,
                        NewSession(userId, defaultAuthMethod, SensitiveOperation, now))
               ELSE sessions
        /\ nextId' = IF created THEN sid ELSE nextId
        /\ pendingExecutions' =
               IF created
               THEN registerPendingExecution(pendingExecutions, userId, sid, now)
               ELSE pendingExecutions
        /\ last' = Result("before_tool_call", userId, IF created THEN sid ELSE 0,
                          IF created THEN "block" ELSE "allow",
                          IF sensitive THEN 1 ELSE 0)
        /\ UNCHANGED <<sessionLimit, configVars, clientVars, users, watch, now, defaultAuthMethod, verifiedForFirstMessage, persisted,
                       reqs, grantWrites, notifyCount>>

\* api.on("message_received"), with config.requireAuthOnFirstMessage set
MessageReceived(userId, ok) ==
    LET verified == FirstMessageVerified(verifiedForFirstMessage, userId, now)
        created == ~verified /\ CanGenerate(defaultAuthMethod)
        sid == FreshId(nextId)
    IN  /\ created => nextId < sessionLimit
        /\ verifiedForFirstMessage' =
               MemoryAfterWrite(verifiedForFirstMessage,
                                FirstMessageAfterCheck(verifiedForFirstMessage, userId, now),
                                ok)
        /\ persisted' = FirstMessageFileAfterCheck(verifiedForFirstMessage, persisted,
                                                    userId, now, ok)
        /\ sessions' =
               IF created
               THEN SessionsSet(sessions, sid,
                        NewSession(userId, defaultAuthMethod, FirstMessage, now))
               ELSE sessions
        /\ nextId' = IF created THEN sid ELSE nextId
        /\ last' = Result("message_received", userId, IF created THEN sid ELSE 0,
                          IF verified THEN "pass" ELSE
                          IF created THEN "auth_required" ELSE "no_session", 0)
        /\ UNCHANGED <<sessionLimit, configVars, clientVars, users, watch, now, defaultAuthMethod, verifiedForSensitiveOps,
                       pendingExecutions, reqs, grantWrites, notifyCount>>

\* clearFirstMessageAuth: the map it leaves
clearFirstMessageAuthKeeps(m, userId) == m

clearFirstMessageAuth(m, userId) == MapDelete(m, userId)

\* the "reauth" command
Reauth(userId, ok) ==
    LET created == CanGenerate(defaultAuthMethod)
        sid == FreshId(nextId)
    IN  /\ created => nextId < sessionLimit
        /\ verifiedForFirstMessage' =
               MemoryAfterWrite(verifiedForFirstMessage,
                                clearFirstMessageAuth(verifiedForFirstMessage, userId), ok)
        /\ persisted' = persistFirstMessageAuth(verifiedForFirstMessage', persisted, ok)
        /\ sessions' =
               IF created
               THEN SessionsSet(sessions, sid,
                        NewSession(userId, defaultAuthMethod, FirstMessage, now))
               ELSE sessions
        /\ nextId' = IF created THEN sid ELSE nextId
        /\ last' = Result("reauth", userId, IF created THEN sid ELSE 0,
                          IF created THEN "link_sent" ELSE "no_session",
                          IF MapHas(verifiedForFirstMessage, userId)
                          THEN MapGet(verifiedForFirstMessage, userId) ELSE 0)
        /\ UNCHANGED <<sessionLimit, configVars, clientVars, users, watch, now, defaultAuthMethod, verifiedForSensitiveOps,
                       pendingExecutions, reqs, grantWrites, notifyCount>>


\* ------------------------------------------------------- QR challenge
\* tokenInfo.expireTimeMs - Date.now() of a challenge handed out by the service
ChallengeLives == {0, 1}

\* QrCodeAuthProvider.initialize, and the refresh handler's assignments
WithChallenge(session, t, life) ==
    [session EXCEPT !.certToken = TRUE, !.expireTimeMs = t + life,
                    !.authStatus = "pending"]

\* session.expireTimeMs && Date.now() > session.expireTimeMs
ChallengeExpiredLate(session, t) ==
    session.expireTimeMs # 0 /\ t > session.expireTimeMs + 1

ChallengeExpired(session, t) == session.expireTimeMs # 0 /\ t > session.expireTimeMs

\* GET /mfa-auth/{sessionId}; ok: dabbyClient.getQrCode() resolved
PageLoad(sid, ok, life) ==
    /\ sessions' =
           IF sid \in DOMAIN sessions /\ getProvider(sessions[sid].authMethod) /\ ok
           THEN [sessions EXCEPT ![sid] = WithChallenge(sessions[sid], now, life)]
           ELSE sessions
    /\ last' = Result("page", "-", sid,
                      IF sid \notin DOMAIN sessions THEN "404"
                      ELSE IF getProvider(sessions[sid].authMethod) /\ ok THEN "200"
                      ELSE "500", 0)
    /\ UNCHANGED <<sessionLimit, configVars, clientVars, users, watch, now, defaultAuthMethod, nextId, verifiedForSensitiveOps,
                   verifiedForFirstMessage, persisted, pendingExecutions, reqs,
                   grantWrites, notifyCount>>

\* The refresh handler's assignments to the session and its
\* updateAuthStatus(sessionId, "pending")
RefreshSessionRestarts(session, t, life) ==
    [WithChallenge(session, t, life) EXCEPT !.timestamp = t]

RefreshSession(session, t, life) == WithChallenge(session, t, life)

\* remainingTime of the refresh response, in units of the session timeout
RemainingTime(session, t) ==
    IF Timeout - (t - session.timestamp) > 0
    THEN Timeout - (t - session.timestamp) ELSE 0

\* POST /mfa-auth/refresh; ok: dabbyClient.getQrCode() resolved
Refresh(sid, ok, life) ==
    /\ sessions' =
           IF sid \in DOMAIN sessions /\ ok
           THEN [sessions EXCEPT ![sid] = RefreshSession(sessions[sid], now, life)]
           ELSE sessions
    /\ last' = Result("refresh", "-", sid,
                      IF sid \notin DOMAIN sessions THEN "404"
                      ELSE IF ok THEN "200" ELSE "500",
                      IF sid \in DOMAIN sessions /\ ok
                      THEN RemainingTime(sessions'[sid], now) ELSE 0)
    /\ UNCHANGED <<sessionLimit, configVars, clientVars, users, watch, now, defaultAuthMethod, nextId, verifiedForSensitiveOps,
                   verifiedForFirstMessage, persisted, pendingExecutions, reqs,
                   grantWrites, notifyCount>>

\* ------------------------------------------- POST /mfa-auth/verify
\* The method name verifySession hands to getProvider
DispatchMethodDefault(session) == defaultAuthMethod

DispatchMethod(session) == session.authMethod

\* What verifySession and the provider answer before any request to the
\* verification service; "polling" when dabbyClient.getAuthResult is called.
VerifyFirstAnswer(ss, sid, t) ==
    IF sid \notin DOMAIN ss THEN "Session not found"
    ELSE IF SessionTimedOut(ss[sid].timestamp, t) THEN "Session expired"
    ELSE IF ~getProvider(DispatchMethod(ss[sid])) THEN "Provider not found"
    ELSE IF ~ss[sid].certToken THEN "QR code not initialized"
    ELSE IF ChallengeExpired(ss[sid], t) THEN "QR code expired"
    ELSE "polling"

\* The session store after that first part
SessionsAfterFirstAnswer(ss, sid, t) ==
    LET answer == VerifyFirstAnswer(ss, sid, t)
    IN  IF answer = "Session expired" THEN SessionsDelete(ss, sid)
        ELSE IF answer = "QR code expired" THEN updateAuthStatus(ss, sid, "expired")
        ELSE ss

\* The status field of the answer given without a poll
AnswerStatus(answer) ==
    IF answer = "QR code expired" THEN "expired"
    ELSE IF answer = "QR code not initialized" THEN "failed"
    ELSE "-"

\* The status code the handler writes: 404 before verifySession is called,
\* 200 with whatever AuthResult verifySession resolved to
VerifyHttpStatusThrows(answer) ==
    IF answer = "Session not found" THEN 404
    ELSE IF answer = "error" THEN 500 ELSE 200

VerifyHttpStatus(answer) == IF answer = "Session not found" THEN 404 ELSE 200

\* The handler up to its first suspension: getSession, verifySession's checks,
\* the provider's checks, and the response when no poll is made.
VerifyCall(r, sid) ==
    LET answer == VerifyFirstAnswer(sessions, sid, now)
    IN  /\ reqs[r].pc = "idle"
        /\ sessions' = SessionsAfterFirstAnswer(sessions, sid, now)
        /\ reqs' = IF answer = "polling"
                   THEN [reqs EXCEPT ![r] = [pc |-> "polling", sid |-> sid,
                                             userId |-> sessions[sid].userId,
                                             triggerType |-> sessions[sid].triggerType,
                                             timestamp |-> sessions[sid].timestamp]]
                   ELSE reqs
        /\ last' = ResultHttp("verifyCall", "-", sid, answer, 0, AnswerStatus(answer),
                              IF answer = "polling" THEN 0 ELSE VerifyHttpStatus(answer),
                              FALSE)
        /\ UNCHANGED <<sessionLimit, configVars, clientVars, users, watch, now, defaultAuthMethod, nextId, verifiedForSensitiveOps,
                       verifiedForFirstMessage, persisted, pendingExecutions,
                       grantWrites, notifyCount>>

\* What dabbyClient.getAuthResult can bring: a status, or an exception
PollOutcomes == {"verified", "failed", "pending", "error"}

\* QrCodeAuthProvider.verify after the poll: the status of the AuthResult it
\* returns; the catch block answers status "failed"
ProviderStatus(outcome) == IF outcome = "error" THEN "failed" ELSE outcome

\* QrCodeAuthProvider.verify after the poll: the status it records
SessionsAfterPollVerifiedOnly(ss, sid, outcome) ==
    IF outcome = "verified" THEN updateAuthStatus(ss, sid, outcome) ELSE ss

SessionsAfterPoll(ss, sid, outcome) ==
    IF outcome \in {"verified", "failed"} THEN updateAuthStatus(ss, sid, outcome) ELSE ss

\* verifySession after a provider success: this.sessions.delete(sessionId)
SessionsAfterSuccessKept(ss, sid) == ss

SessionsAfterSuccess(ss, sid) == SessionsDelete(ss, sid)

\* session.originalContext.triggerType || "sensitive_operation"
\* markUserVerified(userId, triggerType): the sensitive-operation map it leaves
markSensitive(m, userId, triggerType, t) ==
    IF triggerType = FirstMessage THEN m ELSE MapSet(m, userId, t)

\* markUserVerified(userId, triggerType): the first-message map it leaves
markFirstMessage(m, userId, triggerType, t) ==
    IF triggerType = FirstMessage THEN MapSet(m, userId, t) ELSE m

\* if (result.success): the provider's AuthResult has success true
ResultSuccessPending(outcome) == outcome \in {"verified", "pending"}

ResultSuccess(outcome) == outcome = "verified"

\* session.userId, the key of the grants verifySession and the handler write
GrantUserIdOther(req) == CHOOSE u \in users : users = {req.userId} \/ u # req.userId

GrantUserId(req) == req.userId

\* The sensitive-operation grants notifyCallback finds: the handler invokes it
\* after verifySession has returned and after markUserVerified
SensitiveAtNotifyBefore(before, after) == before

SensitiveAtNotify(before, after) == after

\* The rest of the handler, once the poll has come back: the provider's status
\* update, verifySession's grant and delete, then the handler's
\* markUserVerified(session.userId) and notifyCallback(session).
VerifyReturn(r, outcome, ok) ==
    LET sid == reqs[r].sid
        userId == GrantUserId(reqs[r])
        triggerType == reqs[r].triggerType
        success == ResultSuccess(outcome)
        polled == SessionsAfterPoll(sessions, sid, outcome)
        granted == markFirstMessage(verifiedForFirstMessage, userId, triggerType, now)
        old == IF triggerType = FirstMessage THEN verifiedForFirstMessage
               ELSE verifiedForSensitiveOps
    IN  /\ reqs[r].pc = "polling"
        /\ sessions' = IF success THEN SessionsAfterSuccess(polled, sid) ELSE polled
        /\ verifiedForFirstMessage' =
               IF success
               THEN MemoryAfterWrite(verifiedForFirstMessage, granted, ok)
               ELSE verifiedForFirstMessage
        /\ persisted' = IF success /\ triggerType = FirstMessage
                        THEN persistFirstMessageAuth(granted, persisted, ok)
                        ELSE persisted
        /\ verifiedForSensitiveOps' =
               IF success
               THEN markSensitive(
                        markSensitive(verifiedForSensitiveOps, userId, triggerType, now),
                        userId, SensitiveOperation, now)
               ELSE verifiedForSensitiveOps
        /\ grantWrites' = IF success THEN [grantWrites EXCEPT ![sid] = @ + 1]
                          ELSE grantWrites
        /\ notifyCount' = IF success THEN [notifyCount EXCEPT ![sid] = @ + 1]
                          ELSE notifyCount
        /\ reqs' = [reqs EXCEPT ![r] = IdleReq]
        /\ last' = ResultNotify("verifyReturn", userId, sid, outcome,
                                IF MapHas(old, userId) THEN MapGet(old, userId) ELSE 0,
                                ProviderStatus(outcome), VerifyHttpStatus(outcome), success,
                                triggerType, success,
                                /\ success
                                /\ SensitiveVerified(
                                       SensitiveAtNotify(verifiedForSensitiveOps,
                                                         verifiedForSensitiveOps'),
                                       userId, now))
        /\ UNCHANGED <<sessionLimit, configVars, clientVars, users, watch, now, defaultAuthMethod, nextId, pendingExecutions>>

\* ------------------------------------------------------------- sweeper
\* cleanup(), every 30 s
Cleanup(ok) ==
    LET keptFirst == {e \in verifiedForFirstMessage : ~FirstMessageStale(e[2], now)}
    IN  /\ sessions' = [i \in {j \in DOMAIN sessions :
                                   ~SessionTimedOut(sessions[j].timestamp, now)}
                            |-> sessions[i]]
        /\ verifiedForSensitiveOps' =
               {e \in verifiedForSensitiveOps : ~SensitiveStale(e[2], now)}
        /\ verifiedForFirstMessage' = MemoryAfterWrite(verifiedForFirstMessage, keptFirst, ok)
        /\ persisted' = IF keptFirst # verifiedForFirstMessage
                        THEN persistFirstMessageAuth(keptFirst, persisted, ok)
                        ELSE persisted
        /\ pendingExecutions' =
               {e \in pendingExecutions : ~PendingStale(e[2][2], now)}
        /\ last' = Result("cleanup", "-", 0, "-",
                          Cardinality({j \in DOMAIN sessions :
                                          /\ SessionTimedOut(sessions[j].timestamp, now)
                                          /\ getProvider(sessions[j].authMethod)}))
        /\ UNCHANGED <<sessionLimit, configVars, clientVars, users, watch, now, defaultAuthMethod, nextId, reqs, grantWrites, notifyCount>>

\* cleanup() with a registered provider whose cleanup(id) throws for the
\* timed-out session sid: the call is not guarded, so the exception ends the
\* pass.  Map.entries() goes in insertion order, the order of the ids: the
\* timed-out sessions before sid are gone, everything else is as it was.
CleanupThrows(sid) ==
    /\ sid \in DOMAIN sessions
    /\ SessionTimedOut(sessions[sid].timestamp, now)
    /\ getProvider(sessions[sid].authMethod)
    /\ sessions' = [i \in {j \in DOMAIN sessions :
                               j >= sid \/ ~SessionTimedOut(sessions[j].timestamp, now)}
                        |-> sessions[i]]
    /\ last' = Result("cleanup", "-", sid, "throws", 0)
    /\ UNCHANGED <<sessionLimit, configVars, clientVars, users, watch, now, defaultAuthMethod, nextId,
                   verifiedForSensitiveOps, verifiedForFirstMessage, persisted,
                   pendingExecutions, reqs, grantWrites, notifyCount>>

\* ------------------------------------------------- pending executions
\* getAndClearPendingExecution(userId); no caller in the plugin
GetAndClearPendingExecution(userId) ==
    /\ pendingExecutions' = MapDelete(pendingExecutions, userId)
    /\ last' = IF MapHas(pendingExecutions, userId)
               THEN Result("getAndClearPendingExecution", userId,
                           MapGet(pendingExecutions, userId)[1], "sessionId", 0)
               ELSE Result("getAndClearPendingExecution", userId, 0, "null", 0)
    /\ UNCHANGED <<sessionLimit, configVars, clientVars, users, watch, now, defaultAuthMethod, sessions, nextId,
                   verifiedForSensitiveOps, verifiedForFirstMessage, persisted, reqs,
                   grantWrites, notifyCount>>

\* -------------------------------------------------------------- restart
\* The process ends and starts again: new AuthManager(), register(api)
\* verifiedForSensitiveOps = new Map() of a fresh AuthManager: nothing of the
\* old process's map is read back
SensitiveAfterRestartKept(m) == m

SensitiveAfterRestart(m) == {}

Restart ==
    /\ sessions' = << >>
    /\ verifiedForSensitiveOps' = SensitiveAfterRestart(verifiedForSensitiveOps)
    /\ verifiedForFirstMessage' = loadPersistedFirstMessageAuth(persisted, now)
    /\ pendingExecutions' = {}
    /\ reqs' = [r \in DOMAIN reqs |-> IdleReq]
    /\ last' = Result("restart", "-", 0, "-", Cardinality(verifiedForSensitiveOps))
    /\ UNCHANGED <<sessionLimit, configVars, clientVars, users, watch, now, defaultAuthMethod, nextId, persisted, grantWrites, notifyCount>>

\* getSession(sessionId): the session store it leaves
SessionsAfterGetSessionEvicts(ss, sid, t) ==
    IF sid \in DOMAIN ss /\ SessionTimedOut(ss[sid].timestamp, t)
    THEN SessionsDelete(ss, sid) ELSE ss

SessionsAfterGetSession(ss, sid, t) == ss

\* getSession(sessionId), called from outside the handlers
GetSession(sid) ==
    /\ sessions' = SessionsAfterGetSession(sessions, sid, now)
    /\ last' = IF sid \in DOMAIN sessions
               THEN Result("getSession", sessions[sid].userId, sid, "session",
                           sessions[sid].timestamp)
               ELSE Result("getSession", "-", sid, "undefined", 0)
    /\ UNCHANGED <<sessionLimit, configVars, clientVars, users, watch, now, defaultAuthMethod, nextId,
                   verifiedForSensitiveOps, verifiedForFirstMessage, persisted,
                   pendingExecutions, reqs, grantWrites, notifyCount>>

\* An assignment to config.defaultAuthMethod by the host
SetDefaultAuthMethod(methodType) ==
    /\ methodType # defaultAuthMethod
    /\ defaultAuthMethod' = methodType
    /\ last' = Result("setDefaultAuthMethod", "-", 0, methodType, 0)
    /\ UNCHANGED <<sessionLimit, configVars, clientVars, users, watch, now, sessions, nextId, verifiedForSensitiveOps,
                   verifiedForFirstMessage, persisted, pendingExecutions, reqs,
                   grantWrites, notifyCount>>

\* ------------------------------------------------------- DabbyClient
coreVars == <<users, now, defaultAuthMethod, sessions, nextId, verifiedForSensitiveOps,
              verifiedForFirstMessage, persisted, pendingExecutions, reqs,
              grantWrites, notifyCount, watch, last, configVars, sessionLimit>>

\* A call up to its first await: getAccessToken's credentials check and its
\* cache test.  getQrCode and getAuthResult begin with getAccessToken();
\* refreshAccessToken is getAccessToken(true).
ClientCall(c, op, forceRefresh) ==
    /\ calls[c].pc = "idle"
    /\ forceRefresh => op = "getAccessToken"
    /\ IF CredentialsMissing(clientConfigured)
       THEN /\ calls' = calls
            /\ reply' = Rejected(c, op, ConfigError, 0)
       ELSE IF CacheValid(cachedAccessToken, tokenExpiryTime, forceRefresh, now)
       THEN IF op = "getAccessToken"
            THEN /\ calls' = calls
                 /\ reply' = Resolved(c, op, cachedAccessToken, 0)
            ELSE /\ calls' = [calls EXCEPT ![c] = [pc |-> "request", op |-> op, i |-> 0,
                                                   lastError |-> "-", requests |-> 1]]
                 /\ reply' = NoReply
       ELSE /\ calls' = [calls EXCEPT ![c] = [pc |-> "token", op |-> op, i |-> 0,
                                              lastError |-> "-", requests |-> 1]]
            /\ reply' = NoReply
    /\ UNCHANGED <<clientConfigured, cachedAccessToken, tokenExpiryTime>>
    /\ UNCHANGED coreVars

\* cachedAccessToken after an attempt that threw: the catch block logs, keeps
\* the error and sleeps, and assigns nothing
CacheAfterFailureCleared(token) == NoToken

CacheAfterFailure(token) == token

\* The token request of attempt i settles: the body of the try block
TokenResponse(c, resp) ==
    /\ calls[c].pc = "token"
    /\ IF RequestFailed(resp)
       THEN /\ calls' = [calls EXCEPT ![c].pc = "sleep",
                                      ![c].lastError = RequestError(resp)]
            /\ reply' = NoReply
            /\ cachedAccessToken' = CacheAfterFailure(cachedAccessToken)
            /\ tokenExpiryTime' = tokenExpiryTime
       ELSE /\ cachedAccessToken' = resp.accessToken
            /\ tokenExpiryTime' = now + resp.expireSeconds
            /\ IF calls[c].op = "getAccessToken"
               THEN /\ calls' = [calls EXCEPT ![c] = IdleCall]
                    /\ reply' = Resolved(c, calls[c].op, resp.accessToken,
                                         calls[c].requests)
               ELSE /\ calls' = [calls EXCEPT ![c].pc = "request",
                                              ![c].requests = @ + 1]
                    /\ reply' = NoReply
    /\ UNCHANGED clientConfigured
    /\ UNCHANGED coreVars

\* The 1000 ms pause after a failed attempt is over: the next attempt, or
\* throw lastError after the last one
Wake(c) ==
    /\ calls[c].pc = "sleep"
    /\ IF MoreAttempts(calls[c].i)
       THEN /\ calls' = [calls EXCEPT ![c].pc = "token", ![c].i = @ + 1,
                                      ![c].requests = @ + 1]
            /\ reply' = NoReply
       ELSE /\ calls' = [calls EXCEPT ![c] = IdleCall]
            /\ reply' = Rejected(c, calls[c].op, calls[c].lastError,
                                 calls[c].requests)
    /\ UNCHANGED <<clientConfigured, cachedAccessToken, tokenExpiryTime>>
    /\ UNCHANGED coreVars

\* The /authreq request of getQrCode settles
QrResponse(c, resp) ==
    /\ calls[c].pc = "request"
    /\ calls[c].op = "getQrCode"
    /\ calls' = [calls EXCEPT ![c] = IdleCall]
    /\ reply' = IF RequestFailed(resp)
                THEN Rejected(c, "getQrCode", RequestError(resp), calls[c].requests)
                ELSE Resolved(c, "getQrCode", "tokenInfo", calls[c].requests)
    /\ UNCHANGED <<clientConfigured, cachedAccessToken, tokenExpiryTime>>
    /\ UNCHANGED coreVars

\* The /authhist request of getAuthResult settles
AuthResponse(c, resp) ==
    /\ calls[c].pc = "request"
    /\ calls[c].op = "getAuthResult"
    /\ resp.transport # "token"
    /\ calls' = [calls EXCEPT ![c] = IdleCall]
    /\ reply' = IF getAuthResult(resp).status = "error"
                THEN Rejected(c, "getAuthResult", getAuthResult(resp).error,
                              calls[c].requests)
                ELSE Resolved(c, "getAuthResult", getAuthResult(resp).status,
                              calls[c].requests)
    /\ UNCHANGED <<clientConfigured, cachedAccessToken, tokenExpiryTime>>
    /\ UNCHANGED coreVars

\* ---------------------------------------------------------------- spec
Next ==
    \/ Tick
    \/ \E u \in users : IsUserVerifiedForSensitiveOps(u)
    \/ \E u \in users : IsUserVerifiedForFirstMessage(u, TRUE)
    \/ \E u \in users, call \in ToolCalls : BeforeToolCall(u, call[1], call[2])
    \/ \E u \in users : MessageReceived(u, TRUE)
    \/ \E u \in users : Reauth(u, TRUE)
    \/ \E sid \in SessionIds, ok \in BOOLEAN, life \in ChallengeLives :
           PageLoad(sid, ok, life)
    \/ \E sid \in SessionIds, ok \in BOOLEAN, life \in ChallengeLives :
           Refresh(sid, ok, life)
    \/ \E r \in DOMAIN reqs, sid \in SessionIds : VerifyCall(r, sid)
    \/ \E r \in DOMAIN reqs, resp \in PollResponses :
           VerifyReturn(r, getAuthResult(resp).status, TRUE)
    \/ Cleanup(TRUE)
    \/ Restart

Spec == Init /\ [][Next]_vars

\* The same program, with the outcomes of the verify endpoint recorded.
InitVerify ==
    /\ Init!1 /\ Init!2 /\ Init!3 /\ Init!4 /\ Init!5 /\ Init!6 /\ Init!7
    /\ Init!8 /\ Init!9 /\ Init!10 /\ Init!11 /\ Init!12
    /\ watch = {"verifyCall", "verifyReturn"}
    /\ last = NoResult
    /\ Init!15 /\ Init!16 /\ Init!17 /\ Init!18 /\ Init!19 /\ Init!20 /\ Init!21 /\ Init!22 /\ Init!23

SpecVerify == InitVerify /\ [][Next]_vars

\* The same program with two sessions, and the outcomes of the polls recorded.
InitVerifyTwo ==
    /\ Init!1 /\ Init!2 /\ Init!3 /\ Init!4 /\ Init!5 /\ Init!6 /\ Init!7
    /\ Init!8 /\ Init!9 /\ Init!10 /\ Init!11 /\ Init!12
    /\ watch = {"verifyReturn"}
    /\ last = NoResult
    /\ Init!15 /\ Init!16 /\ Init!17 /\ Init!18 /\ Init!19 /\ Init!20 /\ Init!21 /\ Init!22
    /\ sessionLimit = MaxSessionsTwo

SpecVerifyTwo == InitVerifyTwo /\ [][Next]_vars

\* The same program, with the answers of the grace-period checks, of the
\* before_tool_call hook and the restarts recorded.
InitTrust ==
    /\ Init!1 /\ Init!2 /\ Init!3 /\ Init!4 /\ Init!5 /\ Init!6 /\ Init!7
    /\ Init!8 /\ Init!9 /\ Init!10 /\ Init!11 /\ Init!12
    /\ watch = {"isUserVerifiedForSensitiveOps", "isUserVerifiedForFirstMessage",
                "before_tool_call", "restart"}
    /\ last = NoResult
    /\ Init!15 /\ Init!16 /\ Init!17 /\ Init!18 /\ Init!19 /\ Init!20 /\ Init!21 /\ Init!22 /\ Init!23

SpecTrust == InitTrust /\ [][Next]_vars

\* The same program with two sessions, and the answers of the before_tool_call
\* hook recorded.
InitTrustTwo ==
    /\ Init!1 /\ Init!2 /\ Init!3 /\ Init!4 /\ Init!5 /\ Init!6 /\ Init!7
    /\ Init!8 /\ Init!9 /\ Init!10 /\ Init!11 /\ Init!12
    /\ watch = {"before_tool_call"}
    /\ last = NoResult
    /\ Init!15 /\ Init!16 /\ Init!17 /\ Init!18 /\ Init!19 /\ Init!20 /\ Init!21 /\ Init!22
    /\ sessionLimit = MaxSessionsTwo

SpecTrustTwo == InitTrustTwo /\ [][Next]_vars

\* The same program with two sessions, and the sweeper's passes recorded.
InitSweep ==
    /\ Init!1 /\ Init!2 /\ Init!3 /\ Init!4 /\ Init!5 /\ Init!6 /\ Init!7
    /\ Init!8 /\ Init!9 /\ Init!10 /\ Init!11 /\ Init!12
    /\ watch = {"cleanup"}
    /\ last = NoResult
    /\ Init!15 /\ Init!16 /\ Init!17 /\ Init!18 /\ Init!19 /\ Init!20 /\ Init!21 /\ Init!22
    /\ sessionLimit = MaxSessionsTwo

SpecSweep == InitSweep /\ [][Next]_vars

\* The same program with two sessions and a provider whose cleanup can throw.
NextSweepThrows ==
    \/ Next
    \/ \E sid \in SessionIds : CleanupThrows(sid)

InitSweepThrows ==
    /\ Init!1 /\ Init!2 /\ Init!3 /\ Init!4 /\ Init!5 /\ Init!6 /\ Init!7
    /\ Init!8 /\ Init!9 /\ Init!10 /\ Init!11 /\ Init!12 /\ Init!13 /\ Init!14
    /\ Init!15 /\ Init!16 /\ Init!17 /\ Init!18 /\ Init!19 /\ Init!20 /\ Init!21 /\ Init!22
    /\ sessionLimit = MaxSessionsTwo

SpecSweepThrows == InitSweepThrows /\ [][NextSweepThrows]_vars

\* The same program with two users and two sessions, started on a persisted
\* file that holds a record of the second user's, and the reauth commands
\* recorded.
InitReauth ==
    /\ users = Users
    /\ Init!2
    /\ defaultAuthMethod = QrCode
    /\ Init!4 /\ Init!5 /\ Init!6
    /\ persisted = {<<"u2", 1>>}
    /\ verifiedForFirstMessage = loadPersistedFirstMessageAuth(persisted, now)
    /\ Init!9 /\ Init!10 /\ Init!11 /\ Init!12
    /\ watch = {"reauth"}
    /\ last = NoResult
    /\ Init!15 /\ Init!16 /\ Init!17 /\ Init!18 /\ Init!19 /\ Init!20 /\ Init!21 /\ Init!22
    /\ sessionLimit = MaxSessionsTwo

SpecReauth == InitReauth /\ [][Next]_vars

\* The same program with a default method that changes while it runs, and the
\* first part of the verify endpoint recorded.
InitDispatch ==
    /\ Init!1 /\ Init!2 /\ Init!3 /\ Init!4 /\ Init!5 /\ Init!6 /\ Init!7
    /\ Init!8 /\ Init!9 /\ Init!10 /\ Init!11 /\ Init!12
    /\ watch = {"verifyCall"}
    /\ last = NoResult
    /\ Init!15 /\ Init!16 /\ Init!17 /\ Init!18 /\ Init!19 /\ Init!20 /\ Init!21 /\ Init!22 /\ Init!23

NextDispatch ==
    \/ Next
    \/ \E methodType \in AuthMethodTypes : SetDefaultAuthMethod(methodType)

SpecDispatch == InitDispatch /\ [][NextDispatch]_vars

\* The same program, with the answers of the page and refresh endpoints
\* recorded.
InitPages ==
    /\ Init!1 /\ Init!2 /\ Init!3 /\ Init!4 /\ Init!5 /\ Init!6 /\ Init!7
    /\ Init!8 /\ Init!9 /\ Init!10 /\ Init!11 /\ Init!12
    /\ watch = {"page", "refresh"}
    /\ last = NoResult
    /\ Init!15 /\ Init!16 /\ Init!17 /\ Init!18 /\ Init!19 /\ Init!20 /\ Init!21 /\ Init!22 /\ Init!23

SpecPages == InitPages /\ [][Next]_vars

\* The same program with writes of the persisted file that can fail, and the
\* answers of isUserVerifiedForFirstMessage and of the verify endpoint
\* recorded.
InitWrites ==
    /\ Init!1 /\ Init!2 /\ Init!3 /\ Init!4 /\ Init!5 /\ Init!6 /\ Init!7
    /\ Init!8 /\ Init!9 /\ Init!10 /\ Init!11 /\ Init!12
    /\ watch = {"isUserVerifiedForFirstMessage", "verifyReturn"}
    /\ last = NoResult
    /\ Init!15 /\ Init!16 /\ Init!17 /\ Init!18 /\ Init!19 /\ Init!20 /\ Init!21 /\ Init!22 /\ Init!23

NextWrites ==
    \/ Next
    \/ \E u \in users : IsUserVerifiedForFirstMessage(u, FALSE)
    \/ \E u \in users : MessageReceived(u, FALSE)
    \/ \E u \in users : Reauth(u, FALSE)
    \/ \E r \in DOMAIN reqs, resp \in PollResponses :
           VerifyReturn(r, getAuthResult(resp).status, FALSE)
    \/ Cleanup(FALSE)

SpecWrites == InitWrites /\ [][NextWrites]_vars

\* The same program with getSession called from outside, and those calls
\* recorded.
InitLookup ==
    /\ Init!1 /\ Init!2 /\ Init!3 /\ Init!4 /\ Init!5 /\ Init!6 /\ Init!7
    /\ Init!8 /\ Init!9 /\ Init!10 /\ Init!11 /\ Init!12
    /\ watch = {"getSession"}
    /\ last = NoResult
    /\ Init!15 /\ Init!16 /\ Init!17 /\ Init!18 /\ Init!19 /\ Init!20 /\ Init!21 /\ Init!22 /\ Init!23

NextLookup ==
    \/ Next
    \/ \E sid \in SessionIds : GetSession(sid)

SpecLookup == InitLookup /\ [][NextLookup]_vars

\* The same program with two users, two sessions and two verify requests
\* that can overlap.
InitUsers ==
    /\ users = Users
    /\ Init!2
    /\ defaultAuthMethod = QrCode
    /\ Init!4 /\ Init!5 /\ Init!6 /\ Init!7
    /\ Init!8 /\ Init!9
    /\ reqs = [r \in Reqs |-> IdleReq]
    /\ Init!11 /\ Init!12
    /\ Init!13 /\ Init!14
    /\ Init!15 /\ Init!16 /\ Init!17 /\ Init!18 /\ Init!19 /\ Init!20 /\ Init!21 /\ Init!22
    /\ sessionLimit = MaxSessionsTwo

SpecUsers == InitUsers /\ [][Next]_vars

\* The same program with two sessions and getAndClearPendingExecution called
\* from outside, and those calls recorded.
InitPending ==
    /\ Init!1 /\ Init!2 /\ Init!3 /\ Init!4 /\ Init!5 /\ Init!6 /\ Init!7
    /\ Init!8 /\ Init!9 /\ Init!10 /\ Init!11 /\ Init!12
    /\ watch = {"getAndClearPendingExecution"}
    /\ last = NoResult
    /\ Init!15 /\ Init!16 /\ Init!17 /\ Init!18 /\ Init!19 /\ Init!20 /\ Init!21 /\ Init!22
    /\ sessionLimit = MaxSessionsTwo

NextPending ==
    \/ Next
    \/ \E u \in users : GetAndClearPendingExecution(u)

SpecPending == InitPending /\ [][NextPending]_vars

\* The verification client on its own: calls, the token cache and the clock.
InitClient ==
    /\ Init!1 /\ Init!2 /\ defaultAuthMethod = QrCode
    /\ Init!4 /\ Init!5 /\ Init!6 /\ Init!7
    /\ Init!8 /\ Init!9 /\ Init!10 /\ Init!11 /\ Init!12 /\ Init!13 /\ Init!14
    /\ clientConfigured \in BOOLEAN
    /\ Init!16 /\ Init!17 /\ Init!18 /\ Init!19 /\ Init!20 /\ Init!21 /\ Init!22 /\ Init!23

NextClient ==
    \/ Tick
    \/ \E c \in DOMAIN calls, op \in ClientOps, forceRefresh \in BOOLEAN :
           ClientCall(c, op, forceRefresh)
    \/ \E c \in DOMAIN calls, resp \in TokenResponses : TokenResponse(c, resp)
    \/ \E c \in DOMAIN calls : Wake(c)
    \/ \E c \in DOMAIN calls, resp \in QrResponses : QrResponse(c, resp)
    \/ \E c \in DOMAIN calls, resp \in PollResponses : AuthResponse(c, resp)

SpecClient == InitClient /\ [][NextClient]_vars

\* One caller, whose requests and pauses all settle in the end.
InitClientLive ==
    /\ Init!1 /\ Init!2 /\ defaultAuthMethod = QrCode
    /\ Init!4 /\ Init!5 /\ Init!6 /\ Init!7
    /\ Init!8 /\ Init!9 /\ Init!10 /\ Init!11 /\ Init!12 /\ Init!13 /\ Init!14
    /\ clientConfigured \in BOOLEAN
    /\ Init!16 /\ Init!17
    /\ calls = [c \in {"a"} |-> IdleCall]
    /\ Init!19 /\ Init!20 /\ Init!21 /\ Init!22 /\ Init!23

SpecClientLive ==
    /\ InitClientLive
    /\ [][NextClient]_vars
    /\ WF_vars(\E resp \in TokenResponses : TokenResponse("a", resp))
    /\ WF_vars(Wake("a"))
    /\ WF_vars(\E resp \in QrResponses : QrResponse("a", resp))
    /\ WF_vars(\E resp \in PollResponses : AuthResponse("a", resp))


\* The classification of commands, under every value of
\* MFA_SENSITIVE_KEYWORDS the module can be loaded with.
CheckSensitiveOperation(text) ==
    /\ classified' = [done |-> TRUE, text |-> text,
                      isSensitive |-> isSensitive(configKeywords, text)]
    /\ UNCHANGED <<sessionLimit, envKeywords, configKeywords, clientVars, users, now, defaultAuthMethod,
                   sessions, nextId, verifiedForSensitiveOps, verifiedForFirstMessage,
                   persisted, pendingExecutions, reqs, grantWrites, notifyCount,
                   watch, last>>

InitKeywords ==
    /\ Init!1 /\ Init!2 /\ Init!3 /\ Init!4 /\ Init!5 /\ Init!6 /\ Init!7
    /\ Init!8 /\ Init!9 /\ Init!10 /\ Init!11 /\ Init!12 /\ Init!13 /\ Init!14
    /\ Init!15 /\ Init!16 /\ Init!17 /\ Init!18 /\ Init!19
    /\ envKeywords \in EnvValues
    /\ Init!21 /\ Init!22 /\ Init!23

NextKeywords == \E text \in Commands : CheckSensitiveOperation(text)

SpecKeywords == InitKeywords /\ [][NextKeywords]_vars

\* ------------------------------------------------------------- claims
Grants == <<verifiedForSensitiveOps, verifiedForFirstMessage, persisted,
            grantWrites, notifyCount>>

\* C1: a verify call made on a session older than the session timeout answers
\* "Session expired", removes the session, makes no poll (the request does not
\* wait for the provider) and leaves every grant as it was.
C1_ExpiredSessionRejected ==
    [][\A r \in DOMAIN reqs, sid \in SessionIds :
          (/\ VerifyCall(r, sid)
           /\ sid \in DOMAIN sessions
           /\ now - sessions[sid].timestamp > Timeout)
          => (/\ last'.out = "Session expired"
              /\ sid \notin DOMAIN sessions'
              /\ reqs'[r].pc = "idle"
              /\ UNCHANGED Grants)]_vars

C1_Witness ==
    /\ last.op = "verifyCall"
    /\ last.out = "Session expired"
    /\ last.sid \notin DOMAIN sessions
    /\ last.sid <= nextId

\* C2: once verifySession has returned success for a session id, every verify
\* call started afterwards on that id answers "Session not found" and writes
\* no grant.
C2_VerifyAfterSuccessNotFound ==
    [][\A r \in DOMAIN reqs, sid \in SessionIds :
          (VerifyCall(r, sid) /\ grantWrites[sid] >= 1)
          => (/\ last'.out = "Session not found"
              /\ reqs'[r].pc = "idle"
              /\ UNCHANGED Grants)]_vars

C2_Witness ==
    /\ last.op = "verifyCall"
    /\ last.sid \in SessionIds
    /\ grantWrites[last.sid] = 1
    /\ last.out = "Session not found"

\* C3: for every session id the grant is written by at most one verify request
\* and the notification callback is invoked at most once.
C3_GrantAndNotifyOnce ==
    \A sid \in SessionIds : grantWrites[sid] <= 1 /\ notifyCount[sid] <= 1

\* C4: a successful verification through the verify endpoint changes the grant
\* cache of the session's purpose only.
C4_OnlyOwnPurposeGranted ==
    [][\A r \in DOMAIN reqs :
          VerifyReturn(r, "verified", TRUE)
          => (/\ reqs[r].triggerType = FirstMessage
                    => UNCHANGED verifiedForSensitiveOps
              /\ reqs[r].triggerType = SensitiveOperation
                    => UNCHANGED verifiedForFirstMessage)]_vars

\* C5: a success that comes back after the session passed the session timeout,
\* or after the sweeper evicted it, writes no grant and fires no notification.
C5_StaleOutcomeDiscarded ==
    [][\A r \in DOMAIN reqs :
          (/\ VerifyReturn(r, "verified", TRUE)
           /\ \/ reqs[r].sid \notin DOMAIN sessions
              \/ now - reqs[r].timestamp > Timeout)
          => UNCHANGED Grants]_vars

\* C9: no user ever has two grants of one purpose, and a successful verify
\* leaves the user's grant of the session's purpose with the time of that
\* verification.
UniqueKeys(m) == \A e1 \in m, e2 \in m : e1[1] = e2[1] => e1 = e2

C9_OneGrantPerUserAndPurpose ==
    /\ [](UniqueKeys(verifiedForSensitiveOps) /\ UniqueKeys(verifiedForFirstMessage))
    /\ [][\A r \in DOMAIN reqs :
             VerifyReturn(r, "verified", TRUE)
             => LET m == IF reqs[r].triggerType = FirstMessage
                         THEN verifiedForFirstMessage'
                         ELSE verifiedForSensitiveOps'
                IN  {e \in m : e[1] = reqs[r].userId} = {<<reqs[r].userId, now>>}]_vars

C9_Witness ==
    /\ last.op = "verifyReturn"
    /\ last.out = "verified"
    /\ last.prev # 0
    /\ last.prev < now
    /\ verifiedForFirstMessage = {}
    /\ verifiedForSensitiveOps = {<<last.user, now>>}


\* C6: a sensitive tool call whose command contains a configured keyword, made
\* by a user with no sensitive-operation grant or one older than the grace
\* duration, is answered with block.
C6_SensitiveCallBlocked ==
    [][\A u \in users, call \in ToolCalls :
          (/\ BeforeToolCall(u, call[1], call[2])
           /\ call[1] \in sensitiveTools
           /\ \E k \in sensitiveKeywords : includes(toLowerCase(call[2]), k)
           /\ \A e \in verifiedForSensitiveOps :
                  e[1] = u => now - e[2] > VerificationDuration)
          => last'.out = "block"]_vars

\* C7: with a grant written at time g in the cache, the grace-period check at
\* time t answers true when t - g is below the grace duration and false when
\* it is above; in the second case the grant is gone from the cache, and for
\* first-message grants from the persisted record, when the check has answered.
C7_TrustedWithinGraceOnly ==
    [][\A u \in users :
          /\ (IsUserVerifiedForSensitiveOps(u) /\ MapHas(verifiedForSensitiveOps, u))
             => LET g == MapGet(verifiedForSensitiveOps, u)
                IN  /\ now - g < VerificationDuration
                          => last'.out = "true" /\ UNCHANGED verifiedForSensitiveOps
                    /\ now - g > VerificationDuration
                          => last'.out = "false" /\ ~MapHas(verifiedForSensitiveOps', u)
          /\ (IsUserVerifiedForFirstMessage(u, TRUE) /\ MapHas(verifiedForFirstMessage, u))
             => LET g == MapGet(verifiedForFirstMessage, u)
                IN  /\ now - g < FirstMessageAuthDuration
                          => last'.out = "true" /\ UNCHANGED verifiedForFirstMessage
                    /\ now - g > FirstMessageAuthDuration
                          => /\ last'.out = "false"
                             /\ ~MapHas(verifiedForFirstMessage', u)
                             /\ ~MapHas(persisted', u)]_vars

C7_Witness ==
    /\ last.op = "isUserVerifiedForFirstMessage"
    /\ last.out = "false"
    /\ last.prev # 0
    /\ now - last.prev > FirstMessageAuthDuration
    /\ ~MapHas(verifiedForFirstMessage, last.user)
    /\ ~MapHas(persisted, last.user)

\* C8: a grant whose age equals the grace duration is not trusted, and the
\* grace-period checks, the sweeper and the startup load all keep a grant
\* exactly when its age is below the grace duration.
C8_SameDecisionAtBoundary ==
    [][/\ \A u \in users :
            /\ (IsUserVerifiedForSensitiveOps(u) /\ MapHas(verifiedForSensitiveOps, u))
               => (last'.out = "true"
                     <=> now - MapGet(verifiedForSensitiveOps, u) < VerificationDuration)
            /\ (IsUserVerifiedForFirstMessage(u, TRUE) /\ MapHas(verifiedForFirstMessage, u))
               => (last'.out = "true"
                     <=> now - MapGet(verifiedForFirstMessage, u) < FirstMessageAuthDuration)
       /\ Cleanup(TRUE)
          => /\ verifiedForSensitiveOps' =
                   {e \in verifiedForSensitiveOps : now - e[2] < VerificationDuration}
             /\ verifiedForFirstMessage' =
                   {e \in verifiedForFirstMessage : now - e[2] < FirstMessageAuthDuration}
       /\ Restart
          => verifiedForFirstMessage' =
                 {e \in persisted : now - e[2] < FirstMessageAuthDuration}]_vars

\* C10: after a restart the first-message grants in memory are exactly the
\* persisted records younger than the first-message duration, with their
\* persisted timestamps; the file itself is left as it was.
C10_RestartKeepsFreshRecords ==
    [][Restart
       => /\ \A u \in Users :
                 /\ MapHas(verifiedForFirstMessage', u)
                    <=> \E e \in persisted :
                            e[1] = u /\ now - e[2] < FirstMessageAuthDuration
                 /\ MapHas(verifiedForFirstMessage', u)
                    => <<u, MapGet(verifiedForFirstMessage', u)>> \in persisted
          /\ UniqueKeys(verifiedForFirstMessage')
          /\ UNCHANGED persisted]_vars

C10_Witness ==
    /\ last.op = "restart"
    /\ verifiedForFirstMessage = {}
    /\ \E e \in persisted : now - e[2] = FirstMessageAuthDuration

\* C11: token caching.  A getAccessToken() made while a token is cached and
\* now < tokenExpiryTime resolves with the cached token at once and sends no
\* request; getAccessToken(true) always sends a new token request, whatever
\* the cache holds.
C11_CachedTokenReused ==
    [][\A c \in DOMAIN calls :
          /\ (/\ ClientCall(c, "getAccessToken", FALSE)
              /\ clientConfigured
              /\ cachedAccessToken # NoToken
              /\ now < tokenExpiryTime)
             => (/\ reply' = Resolved(c, "getAccessToken", cachedAccessToken, 0)
                 /\ calls' = calls
                 /\ UNCHANGED <<cachedAccessToken, tokenExpiryTime>>)
          /\ (/\ ClientCall(c, "getAccessToken", TRUE)
              /\ clientConfigured)
             => (/\ calls'[c].pc = "token"
                 /\ calls'[c].requests = 1
                 /\ reply' = NoReply)]_vars

\* a second call has been answered from the cache, inside the window
C11_Witness ==
    /\ reply.op = "getAccessToken"
    /\ reply.result = "resolved"
    /\ reply.requests = 0
    /\ reply.value = cachedAccessToken
    /\ now < tokenExpiryTime

\* C12: without a valid cached token getAccessToken sends at most 3 token
\* requests, resolves at the first one that succeeds, rejects after the
\* third failure with the error of that third attempt, and always settles.
C12_AtMostThreeAttempts ==
    /\ [][\A c \in DOMAIN calls :
             /\ calls'[c].op = "getAccessToken" => calls'[c].requests <= MaxAttempts
             /\ \A resp \in TokenResponses :
                    (TokenResponse(c, resp) /\ calls[c].op = "getAccessToken")
                    => IF RequestFailed(resp)
                       THEN /\ calls'[c].lastError = RequestError(resp)
                            /\ calls'[c].pc = "sleep"
                       ELSE /\ calls'[c] = IdleCall
                            /\ reply' = Resolved(c, "getAccessToken", resp.accessToken,
                                                 calls[c].requests)
             /\ (Wake(c) /\ calls[c].op = "getAccessToken")
                    => IF calls[c].requests = MaxAttempts
                       THEN /\ calls'[c] = IdleCall
                            /\ reply' = Rejected(c, "getAccessToken",
                                                 calls[c].lastError, MaxAttempts)
                       ELSE /\ calls'[c].pc = "token"
                            /\ calls'[c].requests = calls[c].requests + 1]_vars
    /\ (calls["a"].pc # "idle") ~> (calls["a"].pc = "idle")

\* all three attempts have failed and the call has been rejected
C12_Witness ==
    /\ reply.op = "getAccessToken"
    /\ reply.result = "rejected"
    /\ reply.requests = MaxAttempts
    /\ reply.value # ConfigError

\* C13: once the token endpoint has answered a getAccessToken call with a
\* non-zero retCode, the call ends rejected with 'Dabby API error: ' and the
\* retMessage of that response, and it neither caches nor returns a token.
C13_RefusedTokenRequestRejects ==
    [][\A c \in DOMAIN calls, m \in RetMessages :
          (/\ calls[c].op = "getAccessToken"
           /\ calls[c].lastError = "Dabby API error: " \o m
           /\ \/ \E resp \in TokenResponses : TokenResponse(c, resp)
              \/ Wake(c))
          => (/\ UNCHANGED <<cachedAccessToken, tokenExpiryTime>>
              /\ calls'[c] = IdleCall
                    => reply' = Rejected(c, "getAccessToken",
                                         "Dabby API error: " \o m, reply'.requests))]_vars

\* C14: without clientId or clientSecret, getAccessToken, getQrCode and
\* getAuthResult are rejected at once with the configuration error: no
\* request is sent, no attempt or pause follows, the token cache is as before.
C14_UnconfiguredFailsFast ==
    [][\A c \in DOMAIN calls, op \in ClientOps, forceRefresh \in BOOLEAN :
          (ClientCall(c, op, forceRefresh) /\ ~clientConfigured)
          => (/\ reply' = Rejected(c, op, ConfigError, 0)
              /\ calls' = calls
              /\ calls'[c] = IdleCall
              /\ UNCHANGED <<cachedAccessToken, tokenExpiryTime>>)]_vars

\* getAuthResult has been rejected with the configuration error
C14_Witness ==
    /\ ~clientConfigured
    /\ reply = Rejected("b", "getAuthResult", ConfigError, 0)
    /\ \A c \in DOMAIN calls : calls[c] = IdleCall

\* C15: a poll answered with retCode 4401 is Pending and no error: the answer
\* has success = false and status pending, the session store is as before (a
\* session that was pending is still there and still pending), and no grant
\* is written.
C15_PendingCodeIsPending ==
    [][\A r \in DOMAIN reqs, resp \in PollResponses :
          (/\ resp.transport = "ok"
           /\ resp.retCode = 4401
           /\ VerifyReturn(r, getAuthResult(resp).status, TRUE))
          => (/\ last'.out = "pending"
              /\ last'.status = "pending"
              /\ sessions' = sessions
              /\ (reqs[r].sid \in DOMAIN sessions
                     /\ sessions[reqs[r].sid].authStatus = "pending")
                    => (reqs[r].sid \in DOMAIN sessions'
                          /\ sessions'[reqs[r].sid].authStatus = "pending")
              /\ UNCHANGED Grants)]_vars

\* a poll has come back pending and the session is still there, pending
C15_Witness ==
    /\ last.op = "verifyReturn"
    /\ last.out = "pending"
    /\ last.status = "pending"
    /\ last.sid \in DOMAIN sessions
    /\ sessions[last.sid].authStatus = "pending"

\* C16: with retCode 0 the result code decides.  resCode 0 gives Verified
\* with the identity claim, and verify succeeds; any other resCode gives
\* Failed with a reason, the provider sets the session's status to failed,
\* verify answers success = false and no grant is written.
C16_ResultCodeDecides ==
    [][\A r \in DOMAIN reqs, resp \in PollResponses :
          (/\ resp.transport = "ok"
           /\ resp.retCode = 0
           /\ VerifyReturn(r, getAuthResult(resp).status, TRUE))
          => IF resp.resCode = 0
             THEN /\ getAuthResult(resp).status = "verified"
                  /\ getAuthResult(resp).authObject
                  /\ last'.out = "verified"
                  /\ last'.status = "verified"
                  /\ grantWrites'[reqs[r].sid] = grantWrites[reqs[r].sid] + 1
             ELSE /\ getAuthResult(resp).status = "failed"
                  /\ getAuthResult(resp).error # "-"
                  /\ ~getAuthResult(resp).authObject
                  /\ last'.out = "failed"
                  /\ last'.status = "failed"
                  /\ sessions' = updateAuthStatus(sessions, reqs[r].sid, "failed")
                  /\ reqs[r].sid \in DOMAIN sessions
                        => sessions'[reqs[r].sid].authStatus = "failed"
                  /\ UNCHANGED Grants]_vars

\* a poll has come back failed and the session's status is failed
C16_Witness ==
    /\ last.op = "verifyReturn"
    /\ last.out = "failed"
    /\ last.sid \in DOMAIN sessions
    /\ sessions[last.sid].authStatus = "failed"

\* C17: a poll answered with a retCode other than 0 and 4401 is answered by
\* verify as a failure (status failed, no exception), and the status of the
\* session moves to failed.
C17_ProtocolErrorFailsSession ==
    [][\A r \in DOMAIN reqs, resp \in PollResponses :
          (/\ resp.transport = "ok"
           /\ resp.retCode \notin {0, 4401}
           /\ reqs[r].sid \in DOMAIN sessions
           /\ VerifyReturn(r, getAuthResult(resp).status, TRUE))
          => (/\ last'.status = "failed"
              /\ reqs[r].sid \in DOMAIN sessions'
              /\ sessions'[reqs[r].sid].authStatus = "failed")]_vars

\* C18: a poll whose request to the service fails in transport leaves the
\* session in the store with the status it had, and the answer to that poll
\* does not carry the terminal status failed.
C18_TransportErrorNotTerminal ==
    [][\A r \in DOMAIN reqs, resp \in PollResponses :
          (/\ resp.transport = "reject"
           /\ reqs[r].sid \in DOMAIN sessions
           /\ VerifyReturn(r, getAuthResult(resp).status, TRUE))
          => (/\ sessions' = sessions
              /\ last'.status # "failed")]_vars

\* C19: when the provider's verify is reached for a session whose challenge
\* expiry has passed, it answers 'QR code expired' with status expired, sets
\* the session's status to expired and makes no poll; no grant is written.
C19_ExpiredChallengeNotPolled ==
    [][\A r \in DOMAIN reqs, sid \in SessionIds :
          (/\ VerifyCall(r, sid)
           /\ sid \in DOMAIN sessions
           /\ ~SessionTimedOut(sessions[sid].timestamp, now)
           /\ getProvider(sessions[sid].authMethod)
           /\ sessions[sid].certToken
           /\ sessions[sid].expireTimeMs # 0
           /\ now > sessions[sid].expireTimeMs)
          => (/\ last'.out = "QR code expired"
              /\ last'.status = "expired"
              /\ sessions' = updateAuthStatus(sessions, sid, "expired")
              /\ sessions'[sid].authStatus = "expired"
              /\ reqs' = reqs
              /\ UNCHANGED Grants)]_vars

\* a verify call has been answered expired without a poll
C19_Witness ==
    /\ last.op = "verifyCall"
    /\ last.out = "QR code expired"
    /\ last.sid \in DOMAIN sessions
    /\ sessions[last.sid].authStatus = "expired"
    /\ now > sessions[last.sid].expireTimeMs
    /\ \A r \in DOMAIN reqs : reqs[r].pc = "idle"

\* a before_tool_call step in which generateSession is called for userId:
\* a sensitive command of a user who is not trusted
CallsGenerateSession(userId) ==
    /\ last'.op = "before_tool_call"
    /\ ~SensitiveVerified(verifiedForSensitiveOps, userId, now)
    /\ \E call \in ToolCalls :
          /\ call[1] \in sensitiveTools
          /\ call[2] # << >>
          /\ checkSensitiveOperation(call[2])
          /\ BeforeToolCall(userId, call[1], call[2])

\* C20: generateSession for a method without a registered provider leaves
\* the session store as it was; with a registered provider it stores exactly
\* one new session, under an id that no session has or ever had, with
\* timestamp = now, and leaves every other session as it was.
C20_GenerateSessionStoresOne ==
    [][\A u \in users :
          CallsGenerateSession(u)
          => IF ~getProvider(defaultAuthMethod)
             THEN sessions' = sessions /\ nextId' = nextId
             ELSE \E sid \in SessionIds :
                     /\ sid \notin 1..nextId
                     /\ sid \notin DOMAIN sessions
                     /\ DOMAIN sessions' = DOMAIN sessions \cup {sid}
                     /\ sessions'[sid].timestamp = now
                     /\ sessions'[sid].userId = u
                     /\ sessions'[sid].authMethod = defaultAuthMethod
                     /\ \A i \in DOMAIN sessions : sessions'[i] = sessions[i]]_vars

\* a second session has just been stored beside an older one
C20_Witness ==
    /\ last.op = "before_tool_call"
    /\ last.out = "block"
    /\ last.sid \in DOMAIN sessions
    /\ sessions[last.sid].timestamp = now
    /\ \E i \in DOMAIN sessions : i # last.sid /\ sessions[i].timestamp < now

\* C21: when the provider's outcome is not a success (pending, failed,
\* expired, or the failure made of an exception), verifySession hands that
\* outcome back as it is, both grant caches and the persisted record are as
\* before, the session is not removed, and after a pending outcome the whole
\* session store is as before.
C21_NonSuccessGrantsNothing ==
    [][/\ \A r \in DOMAIN reqs, resp \in PollResponses :
             (/\ last'.op = "verifyReturn"
              /\ reqs[r].pc = "polling"
              /\ getAuthResult(resp).status # "verified"
              /\ VerifyReturn(r, getAuthResult(resp).status, TRUE))
             => (/\ last'.out = getAuthResult(resp).status
                 /\ last'.status = ProviderStatus(getAuthResult(resp).status)
                 /\ DOMAIN sessions' = DOMAIN sessions
                 /\ getAuthResult(resp).status = "pending" => sessions' = sessions
                 /\ UNCHANGED Grants)
       /\ \A r \in DOMAIN reqs, sid \in SessionIds :
             (/\ last'.op = "verifyCall"
              /\ VerifyFirstAnswer(sessions, sid, now) = "QR code expired"
              /\ VerifyCall(r, sid))
             => (/\ last'.status = "expired"
                 /\ DOMAIN sessions' = DOMAIN sessions
                 /\ UNCHANGED Grants)]_vars

\* a first-message session has been answered failed: it is still stored and
\* nobody holds a grant
C21_Witness ==
    /\ last.op = "verifyReturn"
    /\ last.out = "failed"
    /\ last.sid \in DOMAIN sessions
    /\ sessions[last.sid].triggerType = FirstMessage
    /\ verifiedForSensitiveOps = {}
    /\ verifiedForFirstMessage = {}
    /\ persisted = {}

\* C22: right after a sweeper pass taken at time now, exactly the entries
\* not older than their limit are left: the sessions with now - timestamp <=
\* timeout, unchanged; the grants of both purposes not older than their grace
\* duration; the pending executions not older than 10 minutes.  The
\* provider's cleanup has been called once for every session evicted.
C22_SweepEvictsExactlyTheStale ==
    [][(last'.op = "cleanup" /\ Cleanup(TRUE))
       => (/\ DOMAIN sessions' =
                 {i \in DOMAIN sessions : now - sessions[i].timestamp <= Timeout}
           /\ \A i \in DOMAIN sessions' : sessions'[i] = sessions[i]
           /\ last'.prev = Cardinality(DOMAIN sessions \ DOMAIN sessions')
           /\ verifiedForSensitiveOps' =
                 {e \in verifiedForSensitiveOps : now - e[2] <= VerificationDuration}
           /\ verifiedForFirstMessage' =
                 {e \in verifiedForFirstMessage : now - e[2] <= FirstMessageAuthDuration}
           /\ pendingExecutions' =
                 {e \in pendingExecutions : now - e[2][2] <= PendingTimeout})]_vars

\* a pass has evicted one session and kept the other, and kept a pending
\* execution that is exactly 10 minutes old
C22_Witness ==
    /\ last.op = "cleanup"
    /\ last.prev = 1
    /\ DOMAIN sessions # {}
    /\ \E e \in pendingExecutions : now - e[2][2] = PendingTimeout

\* C23: when the provider's cleanup fails for one timed-out session, the same
\* pass still evicts every other timed-out session, every stale grant of
\* both purposes and every stale pending execution.
C23_SweepIsolatesFailures ==
    [][\A sid \in SessionIds :
          CleanupThrows(sid)
          => (/\ \A i \in DOMAIN sessions' \ {sid} :
                     now - sessions[i].timestamp <= Timeout
              /\ \A e \in verifiedForSensitiveOps' : now - e[2] <= VerificationDuration
              /\ \A e \in verifiedForFirstMessage' :
                     now - e[2] <= FirstMessageAuthDuration
              /\ \A e \in pendingExecutions' : now - e[2][2] <= PendingTimeout)]_vars

\* C24: there is never more than one pending execution per userId.  An entry
\* only appears by a registration, which puts the new session id and now in
\* the place of the user's previous entry; getAndClearPendingExecution
\* returns the session id of the user's entry and removes it, and returns
\* null when the user has none.
C24_OnePendingExecutionPerUser ==
    [][/\ UniqueKeys(pendingExecutions')
       /\ \A e \in pendingExecutions' \ pendingExecutions :
             /\ nextId' = nextId + 1
             /\ e[2] = <<nextId', now>>
             /\ nextId' \in DOMAIN sessions'
             /\ sessions'[nextId'].userId = e[1]
             /\ \A f \in pendingExecutions : f[1] # e[1] => f \in pendingExecutions'
       /\ \A u \in users :
             (last'.op = "getAndClearPendingExecution" /\ GetAndClearPendingExecution(u))
             => IF MapHas(pendingExecutions, u)
                THEN /\ last'.out = "sessionId"
                     /\ \A e \in pendingExecutions : e[1] = u => last'.sid = e[2][1]
                     /\ pendingExecutions' = {e \in pendingExecutions : e[1] # u}
                ELSE /\ last'.out = "null"
                     /\ pendingExecutions' = pendingExecutions]_vars

\* two sensitive commands were blocked, and the call has returned the session
\* id of the second registration and left no entry
C24_Witness ==
    /\ last.op = "getAndClearPendingExecution"
    /\ last.sid = 2
    /\ pendingExecutions = {}
    /\ DOMAIN sessions = {1, 2}
    /\ sessions[1].triggerType = SensitiveOperation
    /\ sessions[2].triggerType = SensitiveOperation

\* C25: a pending execution is valid only while now - registeredAt is below
\* ten minutes: getAndClearPendingExecution returns a session id exactly when
\* hasPendingExecution answers true for the same user at the same instant,
\* hence never the session id of an older entry.
C25_GetAndClearHonoursAge ==
    [][\A u \in users :
          (last'.op = "getAndClearPendingExecution" /\ GetAndClearPendingExecution(u))
          => (last'.out = "sessionId" <=> hasPendingExecution(pendingExecutions, u, now))]_vars

\* C26: the reauth command removes the user's first-contact grant from the
\* cache and from the persisted record and leaves the grants of the other
\* users as they were, also those a restart would load; a user with no
\* first-contact grant in the cache nor in the persisted record gets one only
\* by a successful verification of a first-contact session of that user, so
\* neither the passing of time nor a restart brings the grant back.
C26_ReauthClearsOwnGrantOnly ==
    [][\A u \in users :
          /\ (last'.op = "reauth" /\ Reauth(u, TRUE))
             => /\ ~MapHas(verifiedForFirstMessage', u)
                /\ ~MapHas(persisted', u)
                /\ ~FirstMessageVerified(verifiedForFirstMessage', u, now)
                /\ ~MapHas(loadPersistedFirstMessageAuth(persisted', now), u)
                /\ {e \in verifiedForFirstMessage' : e[1] # u}
                      = {e \in verifiedForFirstMessage : e[1] # u}
                /\ {e \in loadPersistedFirstMessageAuth(persisted', now) : e[1] # u}
                      = {e \in loadPersistedFirstMessageAuth(persisted, now) : e[1] # u}
                /\ verifiedForSensitiveOps' = verifiedForSensitiveOps
          /\ ( /\ ~MapHas(verifiedForFirstMessage, u)
               /\ ~MapHas(persisted, u)
               /\ MapHas(verifiedForFirstMessage', u) \/ MapHas(persisted', u) )
             => \E r \in DOMAIN reqs :
                   /\ reqs[r].pc = "polling"
                   /\ reqs[r].userId = u
                   /\ reqs[r].triggerType = FirstMessage
                   /\ VerifyReturn(r, "verified", TRUE)]_vars

\* a user who held a first-contact grant has run reauth, and the other user
\* still holds theirs in the cache and in the persisted record
C26_Witness ==
    /\ last.op = "reauth"
    /\ last.prev # 0
    /\ ~MapHas(verifiedForFirstMessage, last.user)
    /\ ~MapHas(persisted, last.user)
    /\ \E e \in verifiedForFirstMessage : e[1] # last.user /\ e \in persisted

\* C27: a verify of a stored session that has not timed out goes to the
\* provider registered under the session's own method name, whatever the
\* default method is at that moment: it answers "Provider not found" exactly
\* when no provider is registered under session.authMethod, and otherwise
\* gives that provider's answer for the session's challenge.
C27_DispatchBySessionMethod ==
    [][\A r \in DOMAIN reqs, sid \in SessionIds :
          ( /\ last'.op = "verifyCall"
            /\ last'.sid = sid
            /\ sid \in DOMAIN sessions
            /\ ~SessionTimedOut(sessions[sid].timestamp, now)
            /\ VerifyCall(r, sid) )
          => /\ last'.out = "Provider not found" <=> ~getProvider(sessions[sid].authMethod)
             /\ getProvider(sessions[sid].authMethod)
                => last'.out = IF ~sessions[sid].certToken THEN "QR code not initialized"
                               ELSE IF ChallengeExpired(sessions[sid], now)
                               THEN "QR code expired"
                               ELSE "polling"]_vars

\* the provider of the session's method has been asked to verify while the
\* default method is another one
C27_Witness ==
    /\ last.op = "verifyCall"
    /\ last.out = "polling"
    /\ last.sid \in DOMAIN sessions
    /\ sessions[last.sid].authMethod # defaultAuthMethod

\* C28: POST /mfa-auth/verify answers 404 exactly when the session id is not
\* in the store, and every answer that reports a failed verification (a
\* timed-out session, a provider that refuses before polling, a pending or
\* failed outcome of the poll, an exception of the client during the poll)
\* has a status code below 500 and success = false.
C28_VerifyFailureIsNot5xx ==
    [][/\ (last'.op = "verifyCall" /\ last'.out # "polling")
          => /\ last'.http = 404 <=> last'.sid \notin DOMAIN sessions
             /\ last'.http \in 100..499
             /\ ~last'.success
       /\ (last'.op = "verifyReturn" /\ last'.out # "verified")
          => /\ last'.http \in 100..499
             /\ last'.http # 404
             /\ ~last'.success]_vars

\* the client threw during the poll and the endpoint has answered 200 with
\* status failed
C28_Witness ==
    /\ last.op = "verifyReturn"
    /\ last.out = "error"
    /\ last.status = "failed"
    /\ last.http = 200
    /\ ~last.success

\* C29: GET /mfa-auth/{sessionId} answers 404 and initializes no challenge
\* for every session id that is not in the store or whose session has
\* now - timestamp > timeout, whether or not the sweeper has evicted it.
C29_PageRefusesTimedOutSession ==
    [][\A sid \in SessionIds :
          ( /\ last'.op = "page"
            /\ last'.sid = sid
            /\ \/ sid \notin DOMAIN sessions
               \/ SessionTimedOut(sessions[sid].timestamp, now) )
          => /\ last'.out = "404"
             /\ sessions' = sessions]_vars

C31_GrantBeforeNotify ==
    [][/\ \A r \in DOMAIN reqs :
             ( /\ last'.op = "verifyReturn"
               /\ last'.notified
               /\ reqs[r].pc = "polling"
               /\ reqs[r].triggerType = SensitiveOperation
               /\ notifyCount'[reqs[r].sid] = notifyCount[reqs[r].sid] + 1
               /\ VerifyReturn(r, "verified", TRUE) )
             => /\ last'.trusted
                /\ <<reqs[r].userId, now>> \in verifiedForSensitiveOps'
                /\ \A t \in Times :
                      (t >= now /\ t - now <= VerificationDuration)
                      => SensitiveVerified(verifiedForSensitiveOps', reqs[r].userId, t)
       /\ ( /\ nextId' # nextId
            /\ nextId' \in DOMAIN sessions'
            /\ sessions'[nextId'].triggerType = SensitiveOperation )
          => ~\E e \in verifiedForSensitiveOps :
                 /\ e[1] = sessions'[nextId'].userId
                 /\ now - e[2] <= VerificationDuration]_vars

\* the callback has been invoked for a sensitive_operation session of a user
\* who held no sensitive-operation grant before, and found the grant
C31_Witness ==
    /\ last.op = "verifyReturn"
    /\ last.purpose = SensitiveOperation
    /\ last.notified
    /\ last.trusted
    /\ last.prev = 0
    /\ <<last.user, now>> \in verifiedForSensitiveOps

\* C32: when MFA_SENSITIVE_KEYWORDS is unset the keywords are the built-in
\* list, so that a command containing "rm" or "sudo" is classified sensitive;
\* when it is set they are exactly its comma-separated items, trimmed,
\* lower-cased, the empty ones left out; and a command is sensitive exactly
\* when its lower-cased text contains one of the keywords.
C32_KeywordsFromEnvironment ==
    LET items == {toLowerCase(trim(split(envKeywords.value)[i])) :
                     i \in 1..Len(split(envKeywords.value))} \ {<< >>}
        expected == IF envKeywords.set
                    THEN items
                    ELSE {defaultKeywords[k] : k \in 1..Len(defaultKeywords)}
    IN  /\ {configKeywords[k] : k \in 1..Len(configKeywords)} = expected
        /\ classified.done
           => (classified.isSensitive
               <=> \E keyword \in expected :
                      includes(toLowerCase(classified.text), keyword))

\* C33: failed and expired are terminal: a stored session whose status is
\* failed or expired never has its status changed to pending, scanned or
\* verified by any operation, and no grant is written for it.
C33_FailedAndExpiredAreTerminal ==
    [][\A sid \in DOMAIN sessions :
          sessions[sid].authStatus \in {"failed", "expired"}
          => /\ sid \in DOMAIN sessions'
                => sessions'[sid].authStatus \notin {"pending", "scanned", "verified"}
             /\ grantWrites'[sid] = grantWrites[sid]]_vars

\* C34: after every operation that grants, clears or evicts a first-message
\* grant (a successful first-message verify, the reauth command's clear, the
\* eviction by isUserVerifiedForFirstMessage, the sweeper's eviction), the
\* write having succeeded, the persisted record holds exactly the users of
\* the in-memory first-message cache with their in-memory timestamps.
C34_PersistedMirrorsMemory ==
    [][/\ (last'.op # "restart" /\ verifiedForFirstMessage' # verifiedForFirstMessage)
          => persisted' = verifiedForFirstMessage'
       /\ \A u \in users :
             (last'.op = "-" /\ nextId' # nextId /\ Reauth(u, TRUE))
             => persisted' = verifiedForFirstMessage']_vars

\* isUserVerifiedForFirstMessage has evicted a stale grant, and the record of
\* it is gone from the file too
C34_Witness ==
    /\ last.op = "isUserVerifiedForFirstMessage"
    /\ last.out = "false"
    /\ last.prev # 0
    /\ ~MapHas(verifiedForFirstMessage, last.user)
    /\ ~MapHas(persisted, last.user)
    /\ persisted = verifiedForFirstMessage

\* C35: sensitive-operation grants are never persisted: a record enters the
\* persisted file only as the copy of a first-message grant of the cache, and
\* after a restart no user is trusted for sensitive operations, while every
\* first-message grant that was inside its grace duration is trusted again
\* with the timestamp it had.
C35_SensitiveGrantsDieWithProcess ==
    [][/\ persisted' \ persisted \subseteq verifiedForFirstMessage'
       /\ (last'.op = "restart" /\ Restart)
          => /\ verifiedForSensitiveOps' = {}
             /\ \A u \in users :
                   ~SensitiveVerified(verifiedForSensitiveOps', u, now)
             /\ \A e \in verifiedForFirstMessage :
                   now - e[2] < FirstMessageAuthDuration
                   => /\ e \in verifiedForFirstMessage'
                      /\ FirstMessageVerified(verifiedForFirstMessage', e[1], now)]_vars

\* a restart has dropped a sensitive-operation grant and brought back a
\* first-message grant
C35_Witness ==
    /\ last.op = "restart"
    /\ last.prev > 0
    /\ verifiedForSensitiveOps = {}
    /\ verifiedForFirstMessage # {}
    /\ verifiedForFirstMessage \subseteq persisted

\* C36: a failed write of the persisted file does not raise and does not roll
\* back memory: isUserVerifiedForFirstMessage, the message_received hook, the
\* reauth command, a successful first-message verify and a sweeper pass whose
\* write fails give the answer and leave the in-memory grants that they give
\* and leave when the write succeeds.
C36_FailedWriteKeepsMemory ==
    [][/\ \A u \in users :
             ( /\ last'.op = "isUserVerifiedForFirstMessage"
               /\ last'.user = u
               /\ FirstMessageEvicts(verifiedForFirstMessage, u, now)
               /\ IsUserVerifiedForFirstMessage(u, FALSE) )
             => /\ verifiedForFirstMessage'
                      = {e \in verifiedForFirstMessage :
                            e[1] # u \/ now - e[2] <= FirstMessageAuthDuration}
                /\ last'.out = "true"
                      <=> \E e \in verifiedForFirstMessage :
                             e[1] = u /\ now - e[2] <= FirstMessageAuthDuration
                /\ verifiedForSensitiveOps' = verifiedForSensitiveOps
       /\ \A u \in users :
             ( /\ last'.op = "-"
               /\ now' = now
               /\ FirstMessageEvicts(verifiedForFirstMessage, u, now)
               /\ MessageReceived(u, FALSE) )
             => /\ verifiedForFirstMessage'
                      = {e \in verifiedForFirstMessage :
                            e[1] # u \/ now - e[2] <= FirstMessageAuthDuration}
                /\ verifiedForSensitiveOps' = verifiedForSensitiveOps
       /\ \A u \in users :
             ( /\ last'.op = "-"
               /\ now' = now
               /\ reqs' = reqs
               /\ pendingExecutions' = pendingExecutions
               /\ Reauth(u, FALSE) )
             => /\ verifiedForFirstMessage' = {e \in verifiedForFirstMessage : e[1] # u}
                /\ verifiedForSensitiveOps' = verifiedForSensitiveOps
                /\ CanGenerate(defaultAuthMethod) => nextId' \in DOMAIN sessions'
       /\ \A r \in DOMAIN reqs :
             ( /\ last'.op = "verifyReturn"
               /\ reqs[r].pc = "polling"
               /\ reqs[r].triggerType = FirstMessage
               /\ VerifyReturn(r, "verified", FALSE) )
             => /\ last'.success /\ last'.http = 200 /\ last'.notified
                /\ verifiedForFirstMessage'
                      = {e \in verifiedForFirstMessage : e[1] # reqs[r].userId}
                           \cup {<<reqs[r].userId, now>>}
                /\ <<reqs[r].userId, now>> \in verifiedForSensitiveOps'
                /\ reqs[r].sid \notin DOMAIN sessions'
       /\ ( /\ last'.op = "-"
            /\ now' = now
            /\ \E e \in verifiedForFirstMessage : FirstMessageStale(e[2], now)
            /\ Cleanup(FALSE) )
          => /\ verifiedForFirstMessage'
                   = {e \in verifiedForFirstMessage :
                         now - e[2] <= FirstMessageAuthDuration}
             /\ verifiedForSensitiveOps'
                   = {e \in verifiedForSensitiveOps :
                         now - e[2] <= VerificationDuration}]_vars

\* a first-message verify has succeeded while the write failed: the grant is
\* in memory and not in the file
C36_Witness ==
    /\ last.op = "verifyReturn"
    /\ last.success
    /\ last.purpose = FirstMessage
    /\ <<last.user, now>> \in verifiedForFirstMessage
    /\ <<last.user, now>> \notin persisted

\* C37: getSession returns the stored session for an id that is in the store
\* and nothing for any other id, and changes no session, no grant and no
\* pending execution, also when the session it returns has timed out.
C37_GetSessionIsPureLookup ==
    [][\A sid \in SessionIds :
          (last'.op = "getSession" /\ last'.sid = sid)
          => /\ sessions' = sessions
             /\ verifiedForSensitiveOps' = verifiedForSensitiveOps
             /\ verifiedForFirstMessage' = verifiedForFirstMessage
             /\ persisted' = persisted
             /\ pendingExecutions' = pendingExecutions
             /\ IF sid \in DOMAIN sessions
                THEN /\ last'.out = "session"
                     /\ last'.user = sessions[sid].userId
                     /\ last'.prev = sessions[sid].timestamp
                ELSE last'.out = "undefined"]_vars

\* getSession has returned a session that has timed out, and the session is
\* still stored
C37_Witness ==
    /\ last.op = "getSession"
    /\ last.out = "session"
    /\ last.sid \in DOMAIN sessions
    /\ SessionTimedOut(sessions[last.sid].timestamp, now)

\* C38: trust only comes from a provider success.  A grant entry of a user
\* enters a cache only in the step in which a poll made for a session of
\* that user comes back verified, or, for the first-message cache, by the
\* start-up load of a record of the file; a record enters the file only as
\* the copy of a cache entry; and a poll under way carries the userId of the
\* session it was made for.  Hence every grant held goes back to a provider
\* success for a session of the same user.
C38_TrustOnlyFromProviderSuccess ==
    [][/\ \A e \in (verifiedForSensitiveOps' \ verifiedForSensitiveOps)
                    \cup ((verifiedForFirstMessage' \ verifiedForFirstMessage) \ persisted) :
             \E r \in DOMAIN reqs, sid \in SessionIds :
                /\ reqs[r].pc = "polling"
                /\ reqs[r].sid = sid
                /\ reqs[r].userId = e[1]
                /\ grantWrites'[sid] = grantWrites[sid] + 1
                /\ VerifyReturn(r, "verified", TRUE)
       /\ \A e \in (verifiedForFirstMessage' \ verifiedForFirstMessage) \cap persisted :
             \/ Restart
             \/ \E r \in DOMAIN reqs :
                   /\ reqs[r].pc = "polling"
                   /\ reqs[r].userId = e[1]
                   /\ VerifyReturn(r, "verified", TRUE)
       /\ persisted' \ persisted \subseteq verifiedForFirstMessage'
       /\ \A r \in DOMAIN reqs :
             (reqs[r].pc = "idle" /\ reqs'[r].pc = "polling")
             => /\ reqs'[r].sid \in DOMAIN sessions
                /\ sessions[reqs'[r].sid].userId = reqs'[r].userId]_vars

\* one user holds grants from a verified session; the other has a session
\* whose poll came back failed, and holds no grant
C38_Witness ==
    \E sid \in DOMAIN sessions :
        /\ sessions[sid].authStatus = "failed"
        /\ ~MapHas(verifiedForSensitiveOps, sessions[sid].userId)
        /\ ~MapHas(verifiedForFirstMessage, sessions[sid].userId)
        /\ \E e \in verifiedForSensitiveOps : e[1] # sessions[sid].userId
        /\ \E i \in SessionIds : grantWrites[i] = 1

\* What a user holds: the cache entries, the records of the file that a
\* start-up would load, and the pending execution
HoldingsOf(u, sensitive, first, file, pending, t) ==
    <<{e \in sensitive : e[1] = u}, {e \in first : e[1] = u},
      {e \in loadPersistedFirstMessageAuth(file, t) : e[1] = u},
      {e \in pending : e[1] = u}>>

\* The step leaves every session but sid, and the holdings of every user but
\* userId, as they were
OthersUntouched(sid, userId) ==
    /\ \A i \in DOMAIN sessions \ {sid} :
          i \in DOMAIN sessions' /\ sessions'[i] = sessions[i]
    /\ DOMAIN sessions' \subseteq DOMAIN sessions
    /\ \A u \in users \ {userId} :
          HoldingsOf(u, verifiedForSensitiveOps', verifiedForFirstMessage', persisted',
                     pendingExecutions', now)
          = HoldingsOf(u, verifiedForSensitiveOps, verifiedForFirstMessage, persisted,
                       pendingExecutions, now)

\* C39: a verify (its first part and its return from the poll, with the
\* status updates they make) and a refresh on a session of one user leave
\* unchanged every other session and the grants and the pending execution of
\* every other user, whatever requests of the other users are under way.
C39_PerUserIsolation ==
    [][/\ now' = now /\ nextId' = nextId
       /\ sessions' # sessions \/ reqs' # reqs
       => /\ \A r \in DOMAIN reqs, sid \in DOMAIN sessions :
                ( /\ reqs[r].pc = "idle"
                  /\ verifiedForSensitiveOps' = verifiedForSensitiveOps
                  /\ VerifyCall(r, sid) )
                => OthersUntouched(sid, sessions[sid].userId)
          /\ \A r \in DOMAIN reqs :
                ( /\ reqs[r].pc = "polling"
                  /\ reqs'[r].pc = "idle"
                  /\ \E outcome \in PollOutcomes : VerifyReturn(r, outcome, TRUE) )
                => OthersUntouched(reqs[r].sid, reqs[r].userId)
          /\ \A sid \in DOMAIN sessions :
                ( /\ reqs' = reqs
                  /\ verifiedForSensitiveOps' = verifiedForSensitiveOps
                  /\ sid \in DOMAIN sessions'
                  /\ sessions'[sid] # sessions[sid]
                  /\ \E ok \in BOOLEAN, life \in ChallengeLives : Refresh(sid, ok, life) )
                => OthersUntouched(sid, sessions[sid].userId)]_vars

\* the session of one user has been polled and marked failed while the other
\* user has a session with a challenge, a pending execution and a poll under
\* way
C39_Witness ==
    \E a \in DOMAIN sessions, b \in DOMAIN sessions, r \in DOMAIN reqs :
        /\ sessions[a].userId # sessions[b].userId
        /\ sessions[a].authStatus = "failed"
        /\ sessions[b].authStatus = "pending"
        /\ MapHas(pendingExecutions, sessions[b].userId)
        /\ reqs[r].pc = "polling"
        /\ reqs[r].sid = b

\* C40: a failed token fetch leaves the token cache unchanged: the start of a
\* getAccessToken call (forced or not), each attempt whose request fails, each
\* wake-up after the pause and the step that rejects after the last attempt
\* leave cachedAccessToken and tokenExpiryTime as they were; and a call that
\* resolves with the cached token is not forced and is made at a time
\* now < tokenExpiryTime.
C40_FailedFetchKeepsCache ==
    [][\A c \in DOMAIN calls :
          /\ \A forceRefresh \in BOOLEAN :
                ClientCall(c, "getAccessToken", forceRefresh)
                   => /\ cachedAccessToken' = cachedAccessToken
                      /\ tokenExpiryTime' = tokenExpiryTime
                      /\ reply'.result = "resolved"
                            => /\ ~forceRefresh
                               /\ cachedAccessToken # NoToken
                               /\ reply'.value = cachedAccessToken
                               /\ now < tokenExpiryTime
          /\ ( \/ calls[c].pc = "token" /\ calls'[c].pc = "sleep"
               \/ calls[c].pc = "sleep" /\ calls'[c] # calls[c] )
             => /\ cachedAccessToken' = cachedAccessToken
                /\ tokenExpiryTime' = tokenExpiryTime
          /\ ( /\ calls[c].pc = "sleep"
               /\ calls'[c] = IdleCall )
             => /\ reply' = Rejected(c, calls[c].op, calls[c].lastError, MaxAttempts)
                /\ cachedAccessToken' = cachedAccessToken
                /\ tokenExpiryTime' = tokenExpiryTime]_vars

\* getAccessToken has rejected after three failed requests made because the
\* cached token had run out, and the cache still holds that token and expiry
C40_Witness ==
    /\ reply.op = "getAccessToken"
    /\ reply.result = "rejected"
    /\ reply.requests = MaxAttempts
    /\ cachedAccessToken # NoToken
    /\ now >= tokenExpiryTime
    /\ tokenExpiryTime > 0
====
